---- MODULE Spec2Model ----
(***************************************************************************)
(* Authentication and authorization core of the hospital backend:         *)
(* credential validation, password hashing, token issue / verification,   *)
(* the bearer-token gate, the admin gate and the handlers built on them.  *)
(***************************************************************************)
EXTENDS Integers, Sequences, FiniteSets, TLC

(***************************************************************************)
(* Bounds of the exploration.                                              *)
(***************************************************************************)
MaxTime == 3
MaxWallet == 1
MaxInFlight == 2
MaxDeptSeq == 2
MaxDelta == 2
MaxDoctorSeq == 2

(***************************************************************************)
(* Configuration read from the settings object, and fixed limits.         *)
(***************************************************************************)
ACCESS_TOKEN_EXPIRE == 1
REFRESH_TOKEN_EXPIRE == 2
PHONE_MIN_LENGTH == 10
PHONE_MAX_LENGTH == 15
BCRYPT_MAX_BYTES == 72
PHONE_COUNTRY_CODE == <<"+", "1">>

(***************************************************************************)
(* Strings are sequences of one-character strings.                         *)
(***************************************************************************)
Digits == {"0", "1", "2", "3", "4", "5", "6", "7", "8", "9"}
Upper == {"A", "D", "P"}
Lower == {"a", "b", "c", "d", "e", "i", "m", "n", "o", "r", "t", "z"}
Special == {"!", "@", "#", "$", "%", "^", "&", "*", "(", ")", ",", ".", "?", ":", "{", "}", "|", "<", ">"}
Separators == {" ", "-", "(", ")", "."}

PhoneAdminPlain == <<"1","2","3","4","5","6","7","8","9","0">>
PhonePatientDashed == <<"1","2","3","-","4","5","6","-","7","8","9","2">>
PhoneNewPlain == <<"2","0","2","5","5","5","0","1","0","0">>
PhoneNewParens == <<"(","2","0","2",")"," ","5","5","5","-","0","1","0","0">>
PhoneNewLeadingOne == <<"1","2","0","2","5","5","5","0","1","0","0">>
PhoneShort == <<"1","2","3","4","5">>
PhoneLetters == <<"1","2","3","4","5","a","b","c","d","e">>
PhoneAdminLetters == <<"1","2","3","4","5","6","7","8","9","0","a">>

PwAdmin == <<"A","d","m","i","n","@","1","2","3">>
PwPatient == <<"P","a","t","i","e","n","t","@","1","2","3">>
PwDoctor == <<"D","o","c","t","o","r","@","1","2","3">>
PwNew == <<"A","b","c","d","1","2","3","4","!">>
PwWeak == <<"a","b","c","d","1","2","3","4">>

SeedAdminPhone == <<"+","1","1","2","3","4","5","6","7","8","9","0">>
SeedPatientPhone == <<"+","1","1","2","3","4","5","6","7","8","9","2">>
SeedDoctorPhone == <<"+","1","1","2","3","4","5","6","7","8","9","1">>

(* Inputs the clients send. *)
LoginPhones == {PhoneAdminPlain, PhonePatientDashed, PhoneNewPlain, PhoneAdminLetters}
LoginPasswords == {PwAdmin, PwPatient, PwNew}
RegisterPhones == {PhoneAdminPlain, PhoneNewPlain, PhoneNewParens, PhoneNewLeadingOne, PhoneShort, PhoneLetters}
RegisterPasswords == {PwNew, PwWeak}
OldPasswords == {PwAdmin, PwPatient, PwNew}
NewPasswords == {PwNew, PwWeak}

(***************************************************************************)
(* SecurityUtils                                                           *)
(***************************************************************************)


HasChar(s, S) == \E i \in 1..Len(s) : s[i] \in S

Truncate(s, n) == IF Len(s) > n THEN SubSeq(s, 1, n) ELSE s

(* UTF-8.  Every character used here is one byte, written as itself, except
   EAcute (U+00E9), which is the two bytes 0xC3 0xA9. *)
EAcute == "e'"

Utf8Lead == "0xC3"

Utf8Cont == "0xA9"

(* ''.join / b''.join of the pieces lo..hi *)
RECURSIVE Join(_, _, _)
Join(pieces, lo, hi) ==
    IF lo > hi THEN <<>>
    ELSE IF lo = hi THEN pieces[lo]
    ELSE LET mid == (lo + hi) \div 2
         IN  Join(pieces, lo, mid) \o Join(pieces, mid + 1, hi)

(* str.encode('utf-8'): the bytes of the characters, one after the other *)
utf8_encode(s) ==
    IF \A i \in 1..Len(s) : s[i] # EAcute THEN s
    ELSE Join([i \in 1..Len(s) |-> IF s[i] = EAcute THEN <<Utf8Lead, Utf8Cont>> ELSE <<s[i]>>],
              1, Len(s))

(* bytes.decode('utf-8', errors='ignore'): bytes that do not form a
   character are dropped. *)
utf8_decode_ignore(b) ==
    Join([k \in 1..Len(b) |->
             IF b[k] = Utf8Lead
             THEN IF k < Len(b) /\ b[k + 1] = Utf8Cont THEN <<EAcute>> ELSE <<>>
             ELSE IF b[k] = Utf8Cont THEN <<>>
             ELSE <<b[k]>>],
         1, Len(b))

(* UserLogin.truncate_password *)
truncate_password(v) ==
    LET password_bytes == utf8_encode(v)
    IN  IF Len(password_bytes) > BCRYPT_MAX_BYTES
        THEN utf8_decode_ignore(SubSeq(password_bytes, 1, BCRYPT_MAX_BYTES))
        ELSE v

(* bcrypt looks at the first 72 bytes of the secret; the digest stands for
   the hash of exactly those bytes. *)
get_password_hash(password) ==
    [scheme |-> "bcrypt", digest |-> Truncate(utf8_encode(password), BCRYPT_MAX_BYTES)]

verify_password(plain_password, hashed_password) ==
    /\ hashed_password.scheme = "bcrypt"
    /\ hashed_password.digest = Truncate(utf8_encode(plain_password), BCRYPT_MAX_BYTES)

(* Newer bcrypt backends refuse a secret of more than 72 bytes with a
   ValueError instead of cutting it; older ones cut it silently. *)
TooLongForBcrypt(password) == Len(utf8_encode(password)) > BCRYPT_MAX_BYTES

(* Variant: the digit rule looked at before the letter rules. *)
validate_password_digit_first(password) ==
    IF Len(password) < 8 THEN [ok |-> FALSE, message |-> "Password must be at least 8 characters long"]
    ELSE IF ~HasChar(password, Digits) THEN [ok |-> FALSE, message |-> "Password must contain at least one digit"]
    ELSE IF ~HasChar(password, Upper) THEN [ok |-> FALSE, message |-> "Password must contain at least one uppercase letter"]
    ELSE IF ~HasChar(password, Lower) THEN [ok |-> FALSE, message |-> "Password must contain at least one lowercase letter"]
    ELSE IF ~HasChar(password, Special) THEN [ok |-> FALSE, message |-> "Password must contain at least one special character"]
    ELSE [ok |-> TRUE, message |-> "Password is valid"]

validate_password(password) ==
    IF Len(password) < 8 THEN [ok |-> FALSE, message |-> "Password must be at least 8 characters long"]
    ELSE IF ~HasChar(password, Upper) THEN [ok |-> FALSE, message |-> "Password must contain at least one uppercase letter"]
    ELSE IF ~HasChar(password, Lower) THEN [ok |-> FALSE, message |-> "Password must contain at least one lowercase letter"]
    ELSE IF ~HasChar(password, Digits) THEN [ok |-> FALSE, message |-> "Password must contain at least one digit"]
    ELSE IF ~HasChar(password, Special) THEN [ok |-> FALSE, message |-> "Password must contain at least one special character"]
    ELSE [ok |-> TRUE, message |-> "Password is valid"]

(* the two messages of validate_phone, formatted with the configured range *)
PhoneFormatMessage(min_length, max_length) ==
    "Invalid phone number format. Must be " \o ToString(min_length) \o "-" \o ToString(max_length) \o " digits"

PhoneLengthMessage(min_length, max_length) ==
    "Phone number must be " \o ToString(min_length) \o "-" \o ToString(max_length) \o " digits"

(* Variant: validate_phone without the check against the configured range. *)
validate_phone_pattern_only(phone, min_length, max_length) ==
    LET cleaned_phone == SelectSeq(phone, LAMBDA c : c \notin Separators)
        body == IF Len(cleaned_phone) > 0 /\ cleaned_phone[1] = "+" THEN Tail(cleaned_phone) ELSE cleaned_phone
        matches == /\ \A i \in 1..Len(body) : body[i] \in Digits
                   /\ Len(body) >= 10
                   /\ Len(body) <= 15
    IN  IF ~matches THEN [ok |-> FALSE, message |-> PhoneFormatMessage(min_length, max_length)]
        ELSE [ok |-> TRUE, message |-> "Phone number is valid"]

(* validate_phone under settings.PHONE_MIN_LENGTH = min_length and
   settings.PHONE_MAX_LENGTH = max_length *)
validate_phone_under(phone, min_length, max_length) ==
    LET cleaned_phone == SelectSeq(phone, LAMBDA c : c \notin Separators)
        body == IF Len(cleaned_phone) > 0 /\ cleaned_phone[1] = "+" THEN Tail(cleaned_phone) ELSE cleaned_phone
        matches == /\ \A i \in 1..Len(body) : body[i] \in Digits
                   /\ Len(body) >= 10
                   /\ Len(body) <= 15
        digits_only == SelectSeq(cleaned_phone, LAMBDA c : c \in Digits)
    IN  IF ~matches THEN [ok |-> FALSE, message |-> PhoneFormatMessage(min_length, max_length)]
        ELSE IF Len(digits_only) < min_length \/ Len(digits_only) > max_length
             THEN [ok |-> FALSE, message |-> PhoneLengthMessage(min_length, max_length)]
        ELSE [ok |-> TRUE, message |-> "Phone number is valid"]

validate_phone(phone) == validate_phone_under(phone, PHONE_MIN_LENGTH, PHONE_MAX_LENGTH)

(* Variant: normalize_phone that keeps the leading 1 of an 11-digit number. *)
normalize_phone_keeps_one(phone) ==
    LET cleaned == SelectSeq(phone, LAMBDA c : c \in Digits \cup {"+"})
    IN  IF Len(cleaned) > 0 /\ cleaned[1] = "+" THEN cleaned
        ELSE PHONE_COUNTRY_CODE \o cleaned

(* Variant: normalize_phone that puts the country code in front of every
   number, also one that has a leading +. *)
normalize_phone_always_prefixes(phone) ==
    LET cleaned == SelectSeq(phone, LAMBDA c : c \in Digits \cup {"+"})
    IN  IF Len(cleaned) = 11 /\ cleaned[1] = "1" THEN PHONE_COUNTRY_CODE \o Tail(cleaned)
        ELSE PHONE_COUNTRY_CODE \o cleaned

normalize_phone(phone) ==
    LET cleaned == SelectSeq(phone, LAMBDA c : c \in Digits \cup {"+"})
    IN  IF Len(cleaned) > 0 /\ cleaned[1] = "+" THEN cleaned
        ELSE IF Len(cleaned) = 11 /\ cleaned[1] = "1" THEN PHONE_COUNTRY_CODE \o Tail(cleaned)
        ELSE PHONE_COUNTRY_CODE \o cleaned

(***************************************************************************)
(* TokenUtils.  A token is its claims plus the state of its signature.     *)
(***************************************************************************)
NoToken == [sub |-> "", phone |-> <<>>, exp |-> 0, type |-> "none", sig |-> "none"]

NoDelta == -1

create_access_token(data, expires_delta, t) ==
    LET expire == IF expires_delta # NoDelta /\ expires_delta # 0
                  THEN t + expires_delta
                  ELSE t + ACCESS_TOKEN_EXPIRE
    IN  [sub |-> data.sub, phone |-> data.phone, exp |-> expire, type |-> "access", sig |-> "ok"]

create_refresh_token(data, t) ==
    [sub |-> data.sub, phone |-> data.phone, exp |-> t + REFRESH_TOKEN_EXPIRE, type |-> "refresh", sig |-> "ok"]

(* jwt.decode: the signature must verify and exp must not lie before now. *)
decode_token(token, t) ==
    IF token.sig = "ok" /\ ~(token.exp < t)
    THEN [ok |-> TRUE, payload |-> token]
    ELSE [ok |-> FALSE, payload |-> NoToken]

create_tokens(user_id, phone, t) ==
    [access_token |-> create_access_token([sub |-> ToString(user_id), phone |-> phone], NoDelta, t),
     refresh_token |-> create_refresh_token([sub |-> ToString(user_id), phone |-> phone], t),
     token_type |-> "bearer"]

(***************************************************************************)
(* State                                                                   *)
(***************************************************************************)
VARIABLES
    users,        \* the users table: sequence of rows, row i has id i
    departments,  \* the departments table: set of [id, name]
    deptSeq,      \* last id handed out by the departments sequence
    inflight,     \* register requests between their existence check and their insert
    wallet,       \* tokens the clients hold
    now,          \* the clock, in token time units
    uses,         \* history, where observed: how often each token was honoured by refresh or logout (1 or 2+)
    resp,         \* the response to the request handled by the last step
    changing,     \* change-password requests between the load of their user and their write
    lastChange,   \* history: the last successful change-password of each user, [uid, old, new]
    doctors,      \* the doctors table: set of [id, user_id, department_id]
    doctorSeq,    \* last id handed out by the doctors sequence
    appointments, \* the appointments table: set of [id, patient_id, doctor_id, department_id, slot, status]
    apptSeq       \* last id handed out by the appointments sequence

(* the tables behind the doctors and appointments routers *)
clinic == <<doctors, doctorSeq, appointments, apptSeq>>

vars == <<users, departments, deptSeq, inflight, wallet, now, uses, resp, changing, lastChange,
          doctors, doctorSeq, appointments, apptSeq>>

NoResp == [op |-> "none", status |-> 0, detail |-> "", token |-> NoToken,
           phone |-> <<>>, password |-> <<>>, access |-> NoToken, refresh |-> NoToken, uid |-> 0,
           data |-> <<>>]

(* int(payload.get("sub")) *)
IntOf(s) == IF \E n \in 0..9 : ToString(n) = s
            THEN CHOOSE n \in 0..9 : ToString(n) = s
            ELSE -1

(***************************************************************************)
(* CRUD                                                                    *)
(***************************************************************************)
NoUser == [id |-> 0, phone |-> <<>>, hashed_password |-> [scheme |-> "none", digest |-> <<>>],
           is_active |-> FALSE, is_admin |-> FALSE, is_doctor |-> FALSE]

NoRequest == [phone |-> <<>>, password |-> <<>>]

NoChange == [user |-> NoUser, old_password |-> <<>>, new_password |-> <<>>]

(* CRUDBase.get on users: first row with that id, or none *)
crud_get(id) ==
    IF \E i \in 1..Len(users) : users[i].id = id
    THEN users[CHOOSE i \in 1..Len(users) : users[i].id = id /\ \A j \in 1..(i - 1) : users[j].id # id]
    ELSE NoUser

(* Variant: the lookup compares the phone as it was typed. *)
get_by_phone_as_typed(phone) ==
    IF \E i \in 1..Len(users) : users[i].phone = phone
    THEN users[CHOOSE i \in 1..Len(users) : users[i].phone = phone]
    ELSE NoUser

get_by_phone(phone) ==
    LET normalized_phone == normalize_phone(phone)
    IN  IF \E i \in 1..Len(users) : users[i].phone = normalized_phone
        THEN users[CHOOSE i \in 1..Len(users) :
                      /\ users[i].phone = normalized_phone
                      /\ \A j \in 1..(i - 1) : users[j].phone # normalized_phone]
        ELSE NoUser

(* Variant: authenticate that accepts any password for a known phone. *)
authenticate_any_password(phone, password) ==
    get_by_phone(phone)

authenticate(phone, password) ==
    LET user == get_by_phone(phone)
    IN  IF user = NoUser THEN NoUser
        ELSE IF ~verify_password(password, user.hashed_password) THEN NoUser
        ELSE user

(***************************************************************************)
(* Initial state: the tables as scripts/create_test_users.py leaves them.  *)
(***************************************************************************)
SeedUsers ==
    << [id |-> 1, phone |-> SeedAdminPhone, hashed_password |-> get_password_hash(PwAdmin),
        is_active |-> TRUE, is_admin |-> TRUE, is_doctor |-> FALSE],
       [id |-> 2, phone |-> SeedPatientPhone, hashed_password |-> get_password_hash(PwPatient),
        is_active |-> TRUE, is_admin |-> FALSE, is_doctor |-> FALSE],
       [id |-> 3, phone |-> SeedDoctorPhone, hashed_password |-> get_password_hash(PwDoctor),
        is_active |-> TRUE, is_admin |-> FALSE, is_doctor |-> TRUE] >>

Init ==
    /\ users = SeedUsers
    /\ departments = {[id |-> 1, name |-> "Cardiology"]}
    /\ deptSeq = 1
    /\ inflight = [slot \in 1..MaxInFlight |-> NoRequest]
    /\ wallet = {}
    /\ now = 0
    /\ uses = {}
    /\ resp = NoResp
    /\ changing = [slot \in 1..MaxInFlight |-> NoChange]
    /\ lastChange = {}
    /\ doctors = {[id |-> 1, user_id |-> 3, department_id |-> 1]}
    /\ doctorSeq = 1
    /\ appointments = {}
    /\ apptSeq = 0

(* The client keeps any of the tokens it was handed, while it has room. *)
Keep(issued) ==
    \E kept \in SUBSET issued :
        /\ Cardinality(wallet \cup kept) <= MaxWallet
        /\ wallet' = wallet \cup kept

(***************************************************************************)
(* POST /auth/login                                                        *)
(***************************************************************************)
(* Variant: login that does not look at the active flag. *)
login_ignores_active(phone, password) ==
    LET user == authenticate(phone, password)
        base == [NoResp EXCEPT !.op = "login", !.phone = phone, !.password = password]
    IN  IF user = NoUser
        THEN /\ resp' = [base EXCEPT !.status = 401, !.detail = "Invalid phone number or password"]
             /\ UNCHANGED wallet
        ELSE LET tokens == create_tokens(user.id, user.phone, now)
             IN  /\ resp' = [base EXCEPT !.status = 200, !.access = tokens.access_token,
                                         !.refresh = tokens.refresh_token, !.uid = user.id]
                 /\ Keep({tokens.access_token, tokens.refresh_token})

login(phone, password) ==
    LET user == authenticate(phone, password)
        base == [NoResp EXCEPT !.op = "login", !.phone = phone, !.password = password]
    IN  IF user = NoUser
        THEN /\ resp' = [base EXCEPT !.status = 401, !.detail = "Invalid phone number or password"]
             /\ UNCHANGED wallet
        ELSE IF ~user.is_active
        THEN /\ resp' = [base EXCEPT !.status = 401, !.detail = "User account is inactive"]
             /\ UNCHANGED wallet
        ELSE LET tokens == create_tokens(user.id, user.phone, now)
             IN  /\ resp' = [base EXCEPT !.status = 200, !.access = tokens.access_token,
                                         !.refresh = tokens.refresh_token, !.uid = user.id]
                 /\ Keep({tokens.access_token, tokens.refresh_token})

Login ==
    \E phone \in LoginPhones, password \in LoginPasswords :
        /\ login(phone, truncate_password(password))
        /\ UNCHANGED <<users, departments, deptSeq, inflight, now, uses, changing, lastChange, clinic>>

(***************************************************************************)
(* Dependencies: the bearer-token gate and the admin gate.                 *)
(***************************************************************************)
(* Variant: the gate without the check of the kind tag. *)
get_current_user_any_kind(token) ==
    IF token = NoToken
    THEN [status |-> 401, detail |-> "Not authenticated", user |-> NoUser]
    ELSE LET decoded == decode_token(token, now)
             user == crud_get(IntOf(decoded.payload.sub))
         IN  IF ~decoded.ok THEN [status |-> 401, detail |-> "Invalid token", user |-> NoUser]
             ELSE IF IntOf(decoded.payload.sub) = -1 THEN [status |-> 401, detail |-> "Invalid token", user |-> NoUser]
             ELSE IF user = NoUser THEN [status |-> 401, detail |-> "User not found", user |-> NoUser]
             ELSE IF ~user.is_active THEN [status |-> 403, detail |-> "User is inactive", user |-> NoUser]
             ELSE [status |-> 200, detail |-> "", user |-> user]

(* Variant: the gate telling an expired token from a forged one. *)
get_current_user_tells_expired(token) ==
    IF token = NoToken
    THEN [status |-> 401, detail |-> "Not authenticated", user |-> NoUser]
    ELSE LET decoded == decode_token(token, now)
             payload == decoded.payload
             user_id == IntOf(payload.sub)
             user == crud_get(user_id)
         IN  IF ~decoded.ok /\ token.sig = "ok" THEN [status |-> 401, detail |-> "Token has expired", user |-> NoUser]
             ELSE IF ~decoded.ok THEN [status |-> 401, detail |-> "Invalid token", user |-> NoUser]
             ELSE IF user_id = -1 THEN [status |-> 401, detail |-> "Invalid token", user |-> NoUser]
             ELSE IF payload.type # "access" THEN [status |-> 401, detail |-> "Invalid token type", user |-> NoUser]
             ELSE IF user = NoUser THEN [status |-> 401, detail |-> "User not found", user |-> NoUser]
             ELSE IF ~user.is_active THEN [status |-> 403, detail |-> "User is inactive", user |-> NoUser]
             ELSE [status |-> 200, detail |-> "", user |-> user]

get_current_user(token) ==
    IF token = NoToken
    THEN [status |-> 401, detail |-> "Not authenticated", user |-> NoUser]
    ELSE LET decoded == decode_token(token, now)
             payload == decoded.payload
             user_id == IntOf(payload.sub)
             user == crud_get(user_id)
         IN  IF ~decoded.ok THEN [status |-> 401, detail |-> "Invalid token", user |-> NoUser]
             ELSE IF user_id = -1 THEN [status |-> 401, detail |-> "Invalid token", user |-> NoUser]
             ELSE IF payload.type # "access" THEN [status |-> 401, detail |-> "Invalid token type", user |-> NoUser]
             ELSE IF user = NoUser THEN [status |-> 401, detail |-> "User not found", user |-> NoUser]
             ELSE IF ~user.is_active THEN [status |-> 403, detail |-> "User is inactive", user |-> NoUser]
             ELSE [status |-> 200, detail |-> "", user |-> user]

(* Variant: the admin gate that lets every authenticated user through. *)
get_current_admin_user_unchecked(token) == get_current_user(token)

(* Variant: the admin gate answering a non-admin as if unauthenticated. *)
get_current_admin_user_as_401(token) ==
    LET current == get_current_user(token)
    IN  IF current.status # 200 THEN current
        ELSE IF ~current.user.is_admin
        THEN [status |-> 401, detail |-> "Admin access required", user |-> NoUser]
        ELSE current

get_current_admin_user(token) ==
    LET current == get_current_user(token)
    IN  IF current.status # 200 THEN current
        ELSE IF ~current.user.is_admin
        THEN [status |-> 403, detail |-> "Admin access required", user |-> NoUser]
        ELSE current

(* What a client can put in a request: a token it holds, or one it made up. *)
Forge(token) == [token EXCEPT !.sig = "bad"]

ForgedToken ==
    [sub |-> "1", phone |-> SeedAdminPhone, exp |-> MaxTime + REFRESH_TOKEN_EXPIRE, type |-> "access", sig |-> "bad"]

Presentable == wallet \cup {Forge(t) : t \in wallet} \cup {ForgedToken}

(***************************************************************************)
(* POST /auth/refresh.  Whatever is raised inside the handler, its own     *)
(* exceptions included, is caught and raised again as a 401 whose detail   *)
(* is str() of the caught exception.                                       *)
(***************************************************************************)
(* Variant: the refresh endpoint minting a token of the wrong kind. *)
refresh_token_wrong_kind(token) ==
    LET decoded == decode_token(token, now)
        user == crud_get(IntOf(decoded.payload.sub))
        base == [NoResp EXCEPT !.op = "refresh", !.token = token]
    IN  IF ~decoded.ok
        THEN [base EXCEPT !.status = 401, !.detail = "401: Invalid token"]
        ELSE IF decoded.payload.type # "refresh"
        THEN [base EXCEPT !.status = 401, !.detail = "401: Invalid token type"]
        ELSE IF IntOf(decoded.payload.sub) = -1
        THEN [base EXCEPT !.status = 401, !.detail = "invalid literal for int() with base 10"]
        ELSE IF user = NoUser \/ ~user.is_active
        THEN [base EXCEPT !.status = 401, !.detail = "401: User not found or inactive"]
        ELSE [base EXCEPT !.status = 200, !.uid = user.id,
                          !.access = create_refresh_token([sub |-> ToString(user.id), phone |-> user.phone], now)]

(* Variant: a refresh token that is honoured once only. *)
refresh_token_single_use(token) ==
    LET decoded == decode_token(token, now)
        user == crud_get(IntOf(decoded.payload.sub))
        base == [NoResp EXCEPT !.op = "refresh", !.token = token]
    IN  IF ~decoded.ok \/ (\E u \in uses : u.token = token)
        THEN [base EXCEPT !.status = 401, !.detail = "401: Invalid token"]
        ELSE IF decoded.payload.type # "refresh"
        THEN [base EXCEPT !.status = 401, !.detail = "401: Invalid token type"]
        ELSE IF IntOf(decoded.payload.sub) = -1
        THEN [base EXCEPT !.status = 401, !.detail = "invalid literal for int() with base 10"]
        ELSE IF user = NoUser \/ ~user.is_active
        THEN [base EXCEPT !.status = 401, !.detail = "401: User not found or inactive"]
        ELSE [base EXCEPT !.status = 200, !.uid = user.id,
                          !.access = create_access_token([sub |-> ToString(user.id), phone |-> user.phone], NoDelta, now)]

refresh_token(token) ==
    LET decoded == decode_token(token, now)
        payload == decoded.payload
        user_id == IntOf(payload.sub)
        user == crud_get(user_id)
        base == [NoResp EXCEPT !.op = "refresh", !.token = token]
    IN  IF ~decoded.ok
        THEN [base EXCEPT !.status = 401, !.detail = "401: Invalid token"]
        ELSE IF payload.type # "refresh"
        THEN [base EXCEPT !.status = 401, !.detail = "401: Invalid token type"]
        ELSE IF user_id = -1
        THEN [base EXCEPT !.status = 401, !.detail = "invalid literal for int() with base 10"]
        ELSE IF user = NoUser \/ ~user.is_active
        THEN [base EXCEPT !.status = 401, !.detail = "401: User not found or inactive"]
        ELSE [base EXCEPT !.status = 200, !.uid = user.id,
                          !.access = create_access_token([sub |-> ToString(user.id), phone |-> user.phone], NoDelta, now)]

(* History only: count a token that was honoured, saturating at two. *)
Used(token) ==
    IF [token |-> token, n |-> 2] \in uses THEN uses
    ELSE IF [token |-> token, n |-> 1] \in uses
    THEN (uses \ {[token |-> token, n |-> 1]}) \cup {[token |-> token, n |-> 2]}
    ELSE uses \cup {[token |-> token, n |-> 1]}

RefreshToken ==
    \E token \in Presentable :
        /\ resp' = refresh_token(token)
        /\ IF resp'.status = 200
           THEN Keep({resp'.access})
           ELSE UNCHANGED wallet
        /\ UNCHANGED <<users, departments, deptSeq, inflight, now, uses, changing, lastChange, clinic>>

(* The same request, with the history of honoured tokens kept. *)
RefreshTokenObserved ==
    \E token \in Presentable :
        /\ resp' = refresh_token(token)
        /\ IF resp'.status = 200
           THEN Keep({resp'.access}) /\ uses' = Used(token)
           ELSE UNCHANGED <<wallet, uses>>
        /\ UNCHANGED <<users, departments, deptSeq, inflight, now, changing, lastChange, clinic>>

(***************************************************************************)
(* GET /auth/me and POST /auth/logout                                      *)
(***************************************************************************)
get_current_user_info(token) ==
    LET current == get_current_user(token)
    IN  resp' = [NoResp EXCEPT !.op = "me", !.token = token, !.status = current.status,
                               !.detail = current.detail, !.uid = current.user.id]

GetCurrentUserInfo ==
    \E token \in Presentable \cup {NoToken} :
        /\ get_current_user_info(token)
        /\ UNCHANGED <<users, departments, deptSeq, inflight, wallet, now, uses, changing, lastChange, clinic>>

logout(token) ==
    LET current == get_current_user(token)
    IN  resp' = [NoResp EXCEPT !.op = "logout", !.token = token, !.status = current.status,
                               !.detail = IF current.status = 200 THEN "Logout successful" ELSE current.detail,
                               !.uid = current.user.id]

Logout ==
    \E token \in Presentable \cup {NoToken} :
        /\ logout(token)
        /\ UNCHANGED <<users, departments, deptSeq, inflight, wallet, now, uses, changing, lastChange, clinic>>

(* The same request, with the history of honoured tokens kept. *)
LogoutObserved ==
    \E token \in Presentable \cup {NoToken} :
        /\ logout(token)
        /\ uses' = IF resp'.status = 200 THEN Used(token) ELSE uses
        /\ UNCHANGED <<users, departments, deptSeq, inflight, wallet, now, changing, lastChange, clinic>>

(***************************************************************************)
(* The same two endpoints, offered also a string that is no JWT at all.    *)
(***************************************************************************)
MalformedToken == [sub |-> "", phone |-> <<>>, exp |-> 0, type |-> "", sig |-> "malformed"]

Offered == Presentable \cup {MalformedToken}

RefreshTokenOffered ==
    \E token \in Offered :
        /\ resp' = refresh_token(token)
        /\ IF resp'.status = 200
           THEN Keep({resp'.access})
           ELSE UNCHANGED wallet
        /\ UNCHANGED <<users, departments, deptSeq, inflight, now, uses, changing, lastChange, clinic>>

GetCurrentUserInfoOffered ==
    \E token \in Offered :
        /\ get_current_user_info(token)
        /\ UNCHANGED <<users, departments, deptSeq, inflight, wallet, now, uses, changing, lastChange, clinic>>

(***************************************************************************)
(* POST /auth/change-password                                              *)
(***************************************************************************)
RowOf(id) == CHOOSE i \in 1..Len(users) : users[i].id = id /\ \A j \in 1..(i - 1) : users[j].id # id

(* Variant: change_password whose write is not restricted to the row of its user. *)
crud_change_password_every_row(user, old_password, new_password) ==
    IF ~verify_password(old_password, user.hashed_password)
    THEN [success |-> FALSE, users |-> users]
    ELSE [success |-> TRUE,
          users |-> [i \in 1..Len(users) |-> [users[i] EXCEPT !.hashed_password = get_password_hash(new_password)]]]

(* Variant: change_password that reports success without storing the new hash. *)
crud_change_password_not_stored(user, old_password, new_password) ==
    [success |-> verify_password(old_password, user.hashed_password), users |-> users]

crud_change_password(user, old_password, new_password) ==
    IF ~verify_password(old_password, user.hashed_password)
    THEN [success |-> FALSE, users |-> users]
    ELSE [success |-> TRUE,
          users |-> [users EXCEPT ![RowOf(user.id)].hashed_password = get_password_hash(new_password)]]

change_password(token, old_password, new_password, confirm_password) ==
    LET current == get_current_user(token)
        base == [NoResp EXCEPT !.op = "change_password", !.token = token, !.password = new_password]
        valid == validate_password(new_password)
        changed == crud_change_password(current.user, old_password, new_password)
    IN  IF current.status # 200
        THEN /\ resp' = [base EXCEPT !.status = current.status, !.detail = current.detail]
             /\ UNCHANGED users
        ELSE IF Len(new_password) < 8
        THEN /\ resp' = [base EXCEPT !.status = 422, !.detail = "Password must be at least 8 characters", !.uid = current.user.id]
             /\ UNCHANGED users
        ELSE IF new_password # confirm_password
        THEN /\ resp' = [base EXCEPT !.status = 422, !.detail = "New passwords do not match", !.uid = current.user.id]
             /\ UNCHANGED users
        ELSE IF ~valid.ok
        THEN /\ resp' = [base EXCEPT !.status = 422, !.detail = valid.message, !.uid = current.user.id]
             /\ UNCHANGED users
        ELSE IF ~changed.success
        THEN /\ resp' = [base EXCEPT !.status = 401, !.detail = "Invalid current password", !.uid = current.user.id]
             /\ UNCHANGED users
        ELSE /\ resp' = [base EXCEPT !.status = 200, !.detail = "Password changed successfully", !.uid = current.user.id]
             /\ users' = changed.users

(* history: this user's password was changed from old_password to new_password *)
Recorded(uid, old_password, new_password) ==
    {c \in lastChange : c.uid # uid} \cup {[uid |-> uid, old |-> old_password, new |-> new_password]}

(* A request the gate turns away is the same whatever passwords it carries. *)
ChangePassword ==
    \E token \in Presentable \cup {NoToken} :
        /\ \E old_password \in OldPasswords, new_password \in NewPasswords, confirm_password \in NewPasswords :
              /\ get_current_user(token).status # 200 =>
                    old_password = PwNew /\ new_password = PwNew /\ confirm_password = PwNew
              /\ change_password(token, old_password, new_password, confirm_password)
              /\ lastChange' = IF resp'.status = 200
                               THEN Recorded(resp'.uid, old_password, new_password)
                               ELSE lastChange
        /\ UNCHANGED <<departments, deptSeq, inflight, wallet, now, uses, changing, clinic>>

(***************************************************************************)
(* The same handler under concurrency.  It awaits the store twice: the     *)
(* bearer gate loads the user row into the request's own session, and      *)
(* CRUDUser.change_password later commits the new hash; it compares the    *)
(* old password with the row as it was loaded.  Other requests run between *)
(* the two.                                                                *)
(***************************************************************************)
ChangeOldPasswords == {PwAdmin, PwPatient, PwNew}
ChangeNewPasswords == {PwAdmin, PwNew, PwWeak}

change_password_load(slot, token, old_password, new_password, confirm_password) ==
    LET current == get_current_user(token)
        base == [NoResp EXCEPT !.op = "change_password", !.token = token, !.password = new_password]
        valid == validate_password(new_password)
    IN  IF current.status # 200
        THEN /\ resp' = [base EXCEPT !.status = current.status, !.detail = current.detail]
             /\ UNCHANGED changing
        ELSE IF Len(new_password) < 8
        THEN /\ resp' = [base EXCEPT !.status = 422, !.detail = "Password must be at least 8 characters", !.uid = current.user.id]
             /\ UNCHANGED changing
        ELSE IF new_password # confirm_password
        THEN /\ resp' = [base EXCEPT !.status = 422, !.detail = "New passwords do not match", !.uid = current.user.id]
             /\ UNCHANGED changing
        ELSE IF ~valid.ok
        THEN /\ resp' = [base EXCEPT !.status = 422, !.detail = valid.message, !.uid = current.user.id]
             /\ UNCHANGED changing
        ELSE /\ resp' = NoResp
             /\ changing' = [changing EXCEPT ![slot] = [user |-> current.user, old_password |-> old_password,
                                                        new_password |-> new_password]]

ChangePasswordLoad ==
    \E slot \in 1..MaxInFlight, token \in Presentable \cup {NoToken} :
        /\ changing[slot] = NoChange
        /\ \A other \in 1..(slot - 1) : changing[other] # NoChange
        /\ \E old_password \in ChangeOldPasswords, new_password \in ChangeNewPasswords,
              confirm_password \in ChangeNewPasswords :
              /\ get_current_user(token).status # 200 =>
                    old_password = PwNew /\ new_password = PwNew /\ confirm_password = PwNew
              /\ change_password_load(slot, token, old_password, new_password, confirm_password)
        /\ UNCHANGED <<users, departments, deptSeq, inflight, wallet, now, uses, lastChange, clinic>>

change_password_commit(slot) ==
    LET request == changing[slot]
        base == [NoResp EXCEPT !.op = "change_password", !.password = request.new_password,
                               !.uid = request.user.id, !.data = <<request.old_password>>]
        outcome == crud_change_password(request.user, request.old_password, request.new_password)
    IN  /\ changing' = [changing EXCEPT ![slot] = NoChange]
        /\ IF ~outcome.success
           THEN /\ resp' = [base EXCEPT !.status = 401, !.detail = "Invalid current password"]
                /\ UNCHANGED <<users, lastChange>>
           ELSE /\ resp' = [base EXCEPT !.status = 200, !.detail = "Password changed successfully"]
                /\ users' = outcome.users
                /\ lastChange' = Recorded(request.user.id, request.old_password, request.new_password)

ChangePasswordCommit ==
    \E slot \in 1..MaxInFlight :
        /\ changing[slot] # NoChange
        /\ change_password_commit(slot)
        /\ UNCHANGED <<departments, deptSeq, inflight, wallet, now, uses, clinic>>

(***************************************************************************)
(* Administrative action on the table itself: the active flag of a row is  *)
(* switched.  No endpoint does this; the row is kept.                      *)
(***************************************************************************)
AdminSetActive ==
    \E i \in 1..Len(users), flag \in BOOLEAN :
        /\ users[i].is_active # flag
        /\ users' = [users EXCEPT ![i].is_active = flag]
        /\ resp' = NoResp
        /\ UNCHANGED <<departments, deptSeq, inflight, wallet, now, uses, changing, lastChange, clinic>>

(***************************************************************************)
(* POST /auth/register.  The handler awaits the store twice: the existence *)
(* check and the insert are separate steps, and other requests run between *)
(* them.                                                                   *)
(***************************************************************************)
(* Variant: register that looks at the password before the phone. *)
register_check_password_first(slot, phone, password) ==
    LET base == [NoResp EXCEPT !.op = "register", !.phone = phone, !.password = password]
        phone_ok == validate_phone(phone)
        password_ok == validate_password(password)
    IN  IF Len(phone) < 10 \/ Len(phone) > 20 \/ Len(password) < 8
        THEN /\ resp' = [base EXCEPT !.status = 422, !.detail = "Request validation failed"]
             /\ UNCHANGED inflight
        ELSE IF ~password_ok.ok
        THEN /\ resp' = [base EXCEPT !.status = 422, !.detail = password_ok.message]
             /\ UNCHANGED inflight
        ELSE IF ~phone_ok.ok
        THEN /\ resp' = [base EXCEPT !.status = 422, !.detail = phone_ok.message]
             /\ UNCHANGED inflight
        ELSE IF get_by_phone(phone) # NoUser
        THEN /\ resp' = [base EXCEPT !.status = 409, !.detail = "User with this phone number already exists"]
             /\ UNCHANGED inflight
        ELSE /\ resp' = NoResp
             /\ inflight' = [inflight EXCEPT ![slot] = [phone |-> phone, password |-> password]]

register_check(slot, phone, password) ==
    LET base == [NoResp EXCEPT !.op = "register", !.phone = phone, !.password = password]
        phone_ok == validate_phone(phone)
        password_ok == validate_password(password)
    IN  IF Len(phone) < 10 \/ Len(phone) > 20 \/ Len(password) < 8
        THEN /\ resp' = [base EXCEPT !.status = 422, !.detail = "Request validation failed"]
             /\ UNCHANGED inflight
        ELSE IF ~phone_ok.ok
        THEN /\ resp' = [base EXCEPT !.status = 422, !.detail = phone_ok.message]
             /\ UNCHANGED inflight
        ELSE IF ~password_ok.ok
        THEN /\ resp' = [base EXCEPT !.status = 422, !.detail = password_ok.message]
             /\ UNCHANGED inflight
        ELSE IF get_by_phone(phone) # NoUser
        THEN /\ resp' = [base EXCEPT !.status = 409, !.detail = "User with this phone number already exists"]
             /\ UNCHANGED inflight
        ELSE /\ resp' = NoResp
             /\ inflight' = [inflight EXCEPT ![slot] = [phone |-> phone, password |-> password]]

RegisterCheck ==
    \E slot \in 1..MaxInFlight, phone \in RegisterPhones, password \in RegisterPasswords :
        /\ inflight[slot] = NoRequest
        /\ \A other \in 1..(slot - 1) : inflight[other] # NoRequest
        /\ register_check(slot, phone, password)
        /\ UNCHANGED <<users, departments, deptSeq, wallet, now, uses, changing, lastChange, clinic>>

(* The insert: users.phone is a unique column. *)
PhoneIsFree(phone) == \A i \in 1..Len(users) : users[i].phone # phone

(* Variant: create that stores the phone as it was typed. *)
crud_user_create_as_typed(obj_in) ==
    IF PhoneIsFree(obj_in.phone)
    THEN [ok |-> TRUE,
          user |-> [id |-> Len(users) + 1, phone |-> obj_in.phone,
                    hashed_password |-> get_password_hash(obj_in.password),
                    is_active |-> TRUE, is_admin |-> FALSE, is_doctor |-> FALSE]]
    ELSE [ok |-> FALSE, user |-> NoUser]

(* Variant: the phone column without its unique constraint. *)
crud_user_create_not_unique(obj_in) ==
    [ok |-> TRUE,
     user |-> [id |-> Len(users) + 1, phone |-> normalize_phone(obj_in.phone),
               hashed_password |-> get_password_hash(obj_in.password),
               is_active |-> TRUE, is_admin |-> FALSE, is_doctor |-> FALSE]]

crud_user_create(obj_in) ==
    LET normalized_phone == normalize_phone(obj_in.phone)
        hashed_password == get_password_hash(obj_in.password)
        db_obj == [id |-> Len(users) + 1, phone |-> normalized_phone, hashed_password |-> hashed_password,
                   is_active |-> TRUE, is_admin |-> FALSE, is_doctor |-> FALSE]
    IN  IF PhoneIsFree(normalized_phone)
        THEN [ok |-> TRUE, user |-> db_obj]
        ELSE [ok |-> FALSE, user |-> NoUser]

(* refused: the bcrypt backend turned the secret down while hashing it. *)
register_create(slot, refused) ==
    LET request == inflight[slot]
        base == [NoResp EXCEPT !.op = "register", !.phone = request.phone, !.password = request.password]
        created == crud_user_create(request)
    IN  /\ inflight' = [inflight EXCEPT ![slot] = NoRequest]
        /\ IF refused
           THEN /\ resp' = [base EXCEPT !.status = 500, !.detail = "ValueError"]
                /\ UNCHANGED <<users, wallet>>
           ELSE IF ~created.ok
           THEN /\ resp' = [base EXCEPT !.status = 500, !.detail = "IntegrityError"]
                /\ UNCHANGED <<users, wallet>>
           ELSE LET tokens == create_tokens(created.user.id, created.user.phone, now)
                IN  /\ users' = Append(users, created.user)
                    /\ resp' = [base EXCEPT !.status = 201, !.access = tokens.access_token,
                                            !.refresh = tokens.refresh_token, !.uid = created.user.id]
                    /\ Keep({tokens.access_token, tokens.refresh_token})

RegisterCreate ==
    \E slot \in 1..MaxInFlight, refused \in BOOLEAN :
        /\ inflight[slot] # NoRequest
        /\ refused => TooLongForBcrypt(inflight[slot].password)
        /\ register_create(slot, refused)
        /\ UNCHANGED <<departments, deptSeq, now, uses, changing, lastChange, clinic>>

(***************************************************************************)
(* Secrets around the 72-byte limit of bcrypt, registered and then used to *)
(* log in.                                                                 *)
(***************************************************************************)
Pad(n) == [i \in 1..n |-> "a"]

PwLong72 == PwNew \o Pad(BCRYPT_MAX_BYTES - Len(PwNew))
PwLong73 == PwLong72 \o <<"z">>
PwLongSplit == PwNew \o Pad(BCRYPT_MAX_BYTES - Len(PwNew) - 1) \o <<EAcute>>

LongPasswords == {PwNew, PwLong72, PwLong73, PwLongSplit}
LongPhones == {PhoneNewPlain, PhoneNewParens}

RegisterCheckLong ==
    \E slot \in 1..MaxInFlight, phone \in LongPhones, password \in LongPasswords :
        /\ inflight[slot] = NoRequest
        /\ \A other \in 1..(slot - 1) : inflight[other] # NoRequest
        /\ register_check(slot, phone, password)
        /\ UNCHANGED <<users, departments, deptSeq, wallet, now, uses, changing, lastChange, clinic>>

LoginLong ==
    \E phone \in LongPhones, password \in LongPasswords :
        /\ login(phone, truncate_password(password))
        /\ UNCHANGED <<users, departments, deptSeq, inflight, now, uses, changing, lastChange, clinic>>

(***************************************************************************)
(* Admin-only endpoints: statistics and the departments directory.         *)
(***************************************************************************)
DepartmentNames == {"Cardiology", "Eye Care"}

get_dashboard_stats(token) ==
    LET admin == get_current_admin_user(token)
        base == [NoResp EXCEPT !.op = "get_dashboard_stats", !.token = token]
        active_users == {i \in 1..Len(users) : users[i].is_active}
    IN  IF admin.status # 200
        THEN resp' = [base EXCEPT !.status = admin.status, !.detail = admin.detail]
        ELSE resp' = [base EXCEPT !.status = 200, !.uid = admin.user.id,
                                  !.data = <<Len(users), Cardinality(active_users), Cardinality(departments)>>]

GetDashboardStats ==
    \E token \in Presentable \cup {NoToken} :
        /\ get_dashboard_stats(token)
        /\ UNCHANGED <<users, departments, deptSeq, inflight, wallet, now, uses, changing, lastChange, clinic>>

create_department(token, name) ==
    LET admin == get_current_admin_user(token)
        base == [NoResp EXCEPT !.op = "create_department", !.token = token]
    IN  IF admin.status # 200
        THEN /\ resp' = [base EXCEPT !.status = admin.status, !.detail = admin.detail]
             /\ UNCHANGED <<departments, deptSeq>>
        ELSE IF \E d \in departments : d.name = name
        THEN /\ resp' = [base EXCEPT !.status = 409, !.detail = "Department with this name already exists",
                                     !.uid = admin.user.id]
             /\ UNCHANGED <<departments, deptSeq>>
        ELSE /\ resp' = [base EXCEPT !.status = 201, !.uid = admin.user.id, !.data = <<deptSeq + 1>>]
             /\ departments' = departments \cup {[id |-> deptSeq + 1, name |-> name]}
             /\ deptSeq' = deptSeq + 1

CreateDepartment ==
    \E token \in Presentable \cup {NoToken}, name \in DepartmentNames :
        /\ deptSeq < MaxDeptSeq
        /\ create_department(token, name)
        /\ UNCHANGED <<users, inflight, wallet, now, uses, changing, lastChange, clinic>>

update_department(token, department_id, name) ==
    LET admin == get_current_admin_user(token)
        base == [NoResp EXCEPT !.op = "update_department", !.token = token]
        found == {d \in departments : d.id = department_id}
        department == CHOOSE d \in found : TRUE
    IN  IF admin.status # 200
        THEN /\ resp' = [base EXCEPT !.status = admin.status, !.detail = admin.detail]
             /\ UNCHANGED departments
        ELSE IF found = {}
        THEN /\ resp' = [base EXCEPT !.status = 404, !.detail = "Department not found", !.uid = admin.user.id]
             /\ UNCHANGED departments
        ELSE IF name # department.name /\ \E d \in departments : d.name = name
        THEN /\ resp' = [base EXCEPT !.status = 409, !.detail = "Department with this name already exists",
                                     !.uid = admin.user.id]
             /\ UNCHANGED departments
        ELSE /\ resp' = [base EXCEPT !.status = 200, !.uid = admin.user.id, !.data = <<department_id>>]
             /\ departments' = (departments \ found) \cup {[department EXCEPT !.name = name]}

UpdateDepartment ==
    \E token \in Presentable \cup {NoToken}, department_id \in 1..MaxDeptSeq, name \in DepartmentNames :
        /\ update_department(token, department_id, name)
        /\ UNCHANGED <<users, deptSeq, inflight, wallet, now, uses, changing, lastChange, clinic>>

(* Department.doctors and Department.appointments cascade "all, delete-orphan":
   the rows of the department go with it; an appointment that stays but
   pointed at a deleted doctor has its doctor_id set to NULL. *)
delete_department(token, department_id) ==
    LET admin == get_current_admin_user(token)
        base == [NoResp EXCEPT !.op = "delete_department", !.token = token]
        found == {d \in departments : d.id = department_id}
        gone == {d \in doctors : d.department_id = department_id}
        kept == {a \in appointments : a.department_id # department_id}
    IN  IF admin.status # 200
        THEN /\ resp' = [base EXCEPT !.status = admin.status, !.detail = admin.detail]
             /\ UNCHANGED <<departments, doctors, appointments>>
        ELSE IF found = {}
        THEN /\ resp' = [base EXCEPT !.status = 404, !.detail = "Department not found", !.uid = admin.user.id]
             /\ UNCHANGED <<departments, doctors, appointments>>
        ELSE /\ resp' = [base EXCEPT !.status = 204, !.uid = admin.user.id, !.data = <<department_id>>]
             /\ departments' = departments \ found
             /\ doctors' = doctors \ gone
             /\ appointments' = {IF \E d \in gone : d.id = a.doctor_id THEN [a EXCEPT !.doctor_id = 0] ELSE a : a \in kept}

DeleteDepartment ==
    \E token \in Presentable \cup {NoToken}, department_id \in 1..MaxDeptSeq :
        /\ delete_department(token, department_id)
        /\ UNCHANGED <<users, deptSeq, inflight, wallet, now, uses, changing, lastChange, doctorSeq, apptSeq>>

(***************************************************************************)
(* The doctors router: profiles are created and deleted by admins, and the *)
(* is_doctor flag of the user is set with them.                            *)
(***************************************************************************)
DoctorUserIds == {2, 3, 9}

create_doctor(token, user_id, department_id) ==
    LET admin == get_current_admin_user(token)
        base == [NoResp EXCEPT !.op = "create_doctor", !.token = token]
        user == crud_get(user_id)
    IN  IF admin.status # 200
        THEN /\ resp' = [base EXCEPT !.status = admin.status, !.detail = admin.detail]
             /\ UNCHANGED <<users, doctors, doctorSeq>>
        ELSE IF user = NoUser
        THEN /\ resp' = [base EXCEPT !.status = 404, !.detail = "User not found", !.uid = admin.user.id]
             /\ UNCHANGED <<users, doctors, doctorSeq>>
        ELSE IF ~\E d \in departments : d.id = department_id
        THEN /\ resp' = [base EXCEPT !.status = 404, !.detail = "Department not found", !.uid = admin.user.id]
             /\ UNCHANGED <<users, doctors, doctorSeq>>
        ELSE IF \E d \in doctors : d.user_id = user_id
        THEN /\ resp' = [base EXCEPT !.status = 422, !.detail = "User is already a doctor", !.uid = admin.user.id]
             /\ UNCHANGED <<users, doctors, doctorSeq>>
        ELSE /\ resp' = [base EXCEPT !.status = 201, !.uid = admin.user.id, !.data = <<doctorSeq + 1, user_id>>]
             /\ doctors' = doctors \cup {[id |-> doctorSeq + 1, user_id |-> user_id, department_id |-> department_id]}
             /\ doctorSeq' = doctorSeq + 1
             /\ users' = [users EXCEPT ![RowOf(user_id)].is_doctor = TRUE]

CreateDoctor ==
    \E token \in Presentable \cup {NoToken}, user_id \in DoctorUserIds, department_id \in 1..MaxDeptSeq :
        /\ doctorSeq < MaxDoctorSeq
        /\ get_current_admin_user(token).status # 200 => user_id = 2 /\ department_id = 1
        /\ create_doctor(token, user_id, department_id)
        /\ UNCHANGED <<departments, deptSeq, inflight, wallet, now, uses, changing, lastChange, appointments, apptSeq>>

(* doctor.user is a lazy relationship read outside any awaited call.  It is
   answered from the session when the row is already loaded there (the
   admin's own row, loaded by the gate); otherwise the read needs a query
   that the async session may refuse: loaded says which. *)
delete_doctor(token, doctor_id, loaded) ==
    LET admin == get_current_admin_user(token)
        base == [NoResp EXCEPT !.op = "delete_doctor", !.token = token]
        found == {d \in doctors : d.id = doctor_id}
        doctor == CHOOSE d \in found : TRUE
    IN  IF admin.status # 200
        THEN /\ resp' = [base EXCEPT !.status = admin.status, !.detail = admin.detail]
             /\ UNCHANGED <<users, doctors, appointments>>
        ELSE IF found = {}
        THEN /\ resp' = [base EXCEPT !.status = 404, !.detail = "Doctor not found", !.uid = admin.user.id]
             /\ UNCHANGED <<users, doctors, appointments>>
        ELSE IF doctor.user_id # admin.user.id /\ ~loaded
        THEN /\ resp' = [base EXCEPT !.status = 500, !.detail = "MissingGreenlet", !.uid = admin.user.id]
             /\ UNCHANGED <<users, doctors, appointments>>
        ELSE /\ resp' = [base EXCEPT !.status = 204, !.uid = admin.user.id, !.data = <<doctor_id, doctor.user_id>>]
             /\ users' = [users EXCEPT ![RowOf(doctor.user_id)].is_doctor = FALSE]
             /\ doctors' = doctors \ found
             /\ appointments' = {IF a.doctor_id = doctor_id THEN [a EXCEPT !.doctor_id = 0] ELSE a : a \in appointments}

DeleteDoctor ==
    \E token \in Presentable \cup {NoToken}, doctor_id \in 1..MaxDoctorSeq, loaded \in BOOLEAN :
        /\ get_current_admin_user(token).status # 200 => doctor_id = 1 /\ loaded
        /\ delete_doctor(token, doctor_id, loaded)
        /\ UNCHANGED <<departments, deptSeq, inflight, wallet, now, uses, changing, lastChange, doctorSeq, apptSeq>>

(***************************************************************************)
(* The appointments router.  doctor_id 0 stands for "no doctor"; a slot is *)
(* a date with a time.                                                     *)
(***************************************************************************)
AppointmentSlots == {"day 1 09:00", "day 1 10:00"}

NoAppointment == [id |-> 0, patient_id |-> 0, doctor_id |-> 0, department_id |-> 0, slot |-> "", status |-> ""]

check_availability(doctor_id, slot) ==
    ~\E a \in appointments :
        /\ a.doctor_id = doctor_id
        /\ a.slot = slot
        /\ a.status \in {"confirmed", "pending"}

(* AppointmentCreate built from appointment_data: the schema has no patient_id field
   and ignores the keys it does not declare. *)
AppointmentCreate(appointment_data) ==
    [department_id |-> appointment_data.department_id, doctor_id |-> appointment_data.doctor_id,
     slot |-> appointment_data.slot]

(* CRUDAppointment.create, called without its patient_id argument: the row
   is built from the schema's fields alone; appointments.patient_id is NOT
   NULL, so the insert of a row without it fails. *)
crud_appointment_create(obj_in) ==
    LET db_obj == [id |-> apptSeq + 1, patient_id |-> 0, doctor_id |-> obj_in.doctor_id,
                   department_id |-> obj_in.department_id, slot |-> obj_in.slot, status |-> "confirmed"]
    IN  IF db_obj.patient_id = 0
        THEN [ok |-> FALSE, appointment |-> NoAppointment]
        ELSE [ok |-> TRUE, appointment |-> db_obj]

create_appointment(token, department_id, doctor_id, slot) ==
    LET current == get_current_user(token)
        base == [NoResp EXCEPT !.op = "create_appointment", !.token = token]
        appointment_data == [department_id |-> department_id, doctor_id |-> doctor_id, slot |-> slot,
                             patient_id |-> current.user.id]
        created == crud_appointment_create(AppointmentCreate(appointment_data))
    IN  IF current.status # 200
        THEN /\ resp' = [base EXCEPT !.status = current.status, !.detail = current.detail]
             /\ UNCHANGED <<appointments, apptSeq>>
        ELSE IF ~\E d \in departments : d.id = department_id
        THEN /\ resp' = [base EXCEPT !.status = 404, !.detail = "Department not found", !.uid = current.user.id]
             /\ UNCHANGED <<appointments, apptSeq>>
        ELSE IF doctor_id # 0 /\ ~\E d \in doctors : d.id = doctor_id
        THEN /\ resp' = [base EXCEPT !.status = 404, !.detail = "Doctor not found", !.uid = current.user.id]
             /\ UNCHANGED <<appointments, apptSeq>>
        ELSE IF doctor_id # 0 /\ ~check_availability(doctor_id, slot)
        THEN /\ resp' = [base EXCEPT !.status = 409, !.detail = "Doctor is not available at this time",
                                     !.uid = current.user.id]
             /\ UNCHANGED <<appointments, apptSeq>>
        ELSE IF ~created.ok
        THEN /\ resp' = [base EXCEPT !.status = 500, !.detail = "IntegrityError", !.uid = current.user.id]
             /\ UNCHANGED <<appointments, apptSeq>>
        ELSE /\ resp' = [base EXCEPT !.status = 201, !.uid = current.user.id, !.data = <<created.appointment.id>>]
             /\ appointments' = appointments \cup {created.appointment}
             /\ apptSeq' = apptSeq + 1

(* A request the gate turns away is the same whatever else it carries. *)
CreateAppointment ==
    \E token \in Presentable \cup {NoToken}, department_id \in 1..MaxDeptSeq, doctor_id \in 0..MaxDoctorSeq,
       slot \in AppointmentSlots :
        /\ get_current_user(token).status # 200 =>
              department_id = 1 /\ doctor_id = 0 /\ slot = "day 1 09:00"
        /\ create_appointment(token, department_id, doctor_id, slot)
        /\ UNCHANGED <<users, departments, deptSeq, inflight, wallet, now, uses, changing, lastChange,
                       doctors, doctorSeq>>

(* Variant: cancel without the check of the owner. *)
cancel_appointment_of_anyone(token, appointment_id) ==
    LET current == get_current_user(token)
        base == [NoResp EXCEPT !.op = "cancel_appointment", !.token = token]
        found == {a \in appointments : a.id = appointment_id}
        appointment == CHOOSE a \in found : TRUE
    IN  IF current.status # 200
        THEN /\ resp' = [base EXCEPT !.status = current.status, !.detail = current.detail]
             /\ UNCHANGED appointments
        ELSE IF found = {}
        THEN /\ resp' = [base EXCEPT !.status = 404, !.detail = "Appointment not found", !.uid = current.user.id,
                                     !.data = <<appointment_id>>]
             /\ UNCHANGED appointments
        ELSE /\ resp' = [base EXCEPT !.status = 204, !.uid = current.user.id, !.data = <<appointment_id>>]
             /\ appointments' = (appointments \ found) \cup {[appointment EXCEPT !.status = "cancelled"]}

cancel_appointment(token, appointment_id) ==
    LET current == get_current_user(token)
        base == [NoResp EXCEPT !.op = "cancel_appointment", !.token = token]
        found == {a \in appointments : a.id = appointment_id}
        appointment == CHOOSE a \in found : TRUE
    IN  IF current.status # 200
        THEN /\ resp' = [base EXCEPT !.status = current.status, !.detail = current.detail]
             /\ UNCHANGED appointments
        ELSE IF found = {}
        THEN /\ resp' = [base EXCEPT !.status = 404, !.detail = "Appointment not found", !.uid = current.user.id,
                                     !.data = <<appointment_id>>]
             /\ UNCHANGED appointments
        ELSE IF ~current.user.is_admin /\ appointment.patient_id # current.user.id
        THEN /\ resp' = [base EXCEPT !.status = 404, !.detail = "Appointment not found", !.uid = current.user.id,
                                     !.data = <<appointment_id>>]
             /\ UNCHANGED appointments
        ELSE /\ resp' = [base EXCEPT !.status = 204, !.uid = current.user.id, !.data = <<appointment_id>>]
             /\ appointments' = (appointments \ found) \cup {[appointment EXCEPT !.status = "cancelled"]}

CancelAppointment ==
    \E token \in Presentable \cup {NoToken}, appointment_id \in 1..(apptSeq + 1) :
        /\ cancel_appointment(token, appointment_id)
        /\ UNCHANGED <<users, departments, deptSeq, inflight, wallet, now, uses, changing, lastChange,
                       doctors, doctorSeq, apptSeq>>

(* AppointmentStatus.ALL *)
AppointmentStatusAll == {"confirmed", "cancelled", "completed", "no-show", "pending"}

(* GET /appointments.  status "" stands for a request without the filter;
   the page is the first one and holds the whole table. *)
list_appointments(token, status) ==
    LET current == get_current_user(token)
        base == [NoResp EXCEPT !.op = "list_appointments", !.token = token]
        items == {a \in appointments :
                     /\ current.user.is_admin \/ a.patient_id = current.user.id
                     /\ status = "" \/ a.status = status}
    IN  IF current.status # 200
        THEN resp' = [base EXCEPT !.status = current.status, !.detail = current.detail]
        ELSE resp' = [base EXCEPT !.status = 200, !.uid = current.user.id, !.data = <<items, status>>]

ListAppointments ==
    \E token \in Presentable \cup {NoToken}, status \in {"", "confirmed"} :
        /\ get_current_user(token).status # 200 => status = ""
        /\ list_appointments(token, status)
        /\ UNCHANGED <<users, departments, deptSeq, inflight, wallet, now, uses, changing, lastChange, clinic>>

(* GET /appointments/{appointment_id}.  Past the authorization check the
   handler reads the lazy relationships patient, doctor and department of
   the row; the department is never in the session yet, so the read needs a
   query that the async session may refuse: loaded says which. *)
get_appointment(token, appointment_id, loaded) ==
    LET current == get_current_user(token)
        base == [NoResp EXCEPT !.op = "get_appointment", !.token = token]
        found == {a \in appointments : a.id = appointment_id}
        appointment == CHOOSE a \in found : TRUE
    IN  IF current.status # 200
        THEN resp' = [base EXCEPT !.status = current.status, !.detail = current.detail]
        ELSE IF found = {}
        THEN resp' = [base EXCEPT !.status = 404, !.detail = "Appointment not found", !.uid = current.user.id,
                                  !.data = <<appointment_id>>]
        ELSE IF ~current.user.is_admin /\ appointment.patient_id # current.user.id
        THEN resp' = [base EXCEPT !.status = 404, !.detail = "Appointment not found", !.uid = current.user.id,
                                  !.data = <<appointment_id>>]
        ELSE IF ~loaded
        THEN resp' = [base EXCEPT !.status = 500, !.detail = "MissingGreenlet", !.uid = current.user.id,
                                  !.data = <<appointment_id>>]
        ELSE resp' = [base EXCEPT !.status = 200, !.uid = current.user.id, !.data = <<appointment_id, appointment.status, appointment.slot>>]

GetAppointment ==
    \E token \in Presentable \cup {NoToken}, appointment_id \in 1..(apptSeq + 1), loaded \in BOOLEAN :
        /\ get_current_user(token).status # 200 => appointment_id = 1 /\ loaded
        /\ get_appointment(token, appointment_id, loaded)
        /\ UNCHANGED <<users, departments, deptSeq, inflight, wallet, now, uses, changing, lastChange, clinic>>

(* AppointmentUpdate: every field is optional; Unset is a field the request
   does not carry, "None" a field it carries as null. *)
Unset == "unset"

AppointmentUpdates ==
    {[status |-> status, slot |-> Unset] : status \in {"None", "", "confirmed", "completed", "archived"}}
    \cup {[status |-> Unset, slot |-> slot] : slot \in AppointmentSlots}

(* CRUDBase.update: the fields the request carries are written, a null too *)
crud_update(db_obj, obj_in) ==
    [db_obj EXCEPT !.status = IF obj_in.status = Unset THEN db_obj.status ELSE obj_in.status,
                   !.slot = IF obj_in.slot = Unset THEN db_obj.slot ELSE obj_in.slot]

(* PUT /appointments/{appointment_id}.  `appointment_in.status and ...`:
   an absent, null or empty status is falsy and skips the validation. *)
update_appointment(token, appointment_id, appointment_in) ==
    LET admin == get_current_admin_user(token)
        base == [NoResp EXCEPT !.op = "update_appointment", !.token = token]
        found == {a \in appointments : a.id = appointment_id}
        appointment == CHOOSE a \in found : TRUE
    IN  IF admin.status # 200
        THEN /\ resp' = [base EXCEPT !.status = admin.status, !.detail = admin.detail]
             /\ UNCHANGED appointments
        ELSE IF found = {}
        THEN /\ resp' = [base EXCEPT !.status = 404, !.detail = "Appointment not found", !.uid = admin.user.id]
             /\ UNCHANGED appointments
        ELSE IF /\ appointment_in.status \notin {Unset, "None", ""}
                /\ appointment_in.status \notin AppointmentStatusAll
        THEN /\ resp' = [base EXCEPT !.status = 422, !.detail = "Invalid appointment status", !.uid = admin.user.id,
                                     !.data = <<appointment_id, appointment_in.status, appointment_in.slot>>]
             /\ UNCHANGED appointments
        ELSE /\ resp' = [base EXCEPT !.status = 200, !.uid = admin.user.id,
                                     !.data = <<appointment_id, appointment_in.status, appointment_in.slot>>]
             /\ appointments' = (appointments \ found) \cup {crud_update(appointment, appointment_in)}

UpdateAppointment ==
    \E token \in Presentable \cup {NoToken}, appointment_id \in 1..(apptSeq + 1),
       appointment_in \in AppointmentUpdates :
        /\ get_current_admin_user(token).status # 200 =>
              appointment_id = 1 /\ appointment_in = [status |-> "confirmed", slot |-> Unset]
        /\ update_appointment(token, appointment_id, appointment_in)
        /\ UNCHANGED <<users, departments, deptSeq, inflight, wallet, now, uses, changing, lastChange,
                       doctors, doctorSeq, apptSeq>>

(***************************************************************************)
(* The appointments table as the requests find it.  Rows get there through *)
(* CRUDAppointment.create called with a patient_id; the tables below hold  *)
(* up to two rows, of two patients, and no doctor is booked twice.         *)
(***************************************************************************)
BookedRows ==
    {[id |-> 1, patient_id |-> 2, doctor_id |-> 1, department_id |-> 1, slot |-> "day 1 09:00", status |-> status] :
        status \in {"confirmed", "cancelled"}}
    \cup {[id |-> 2, patient_id |-> 3, doctor_id |-> doctor_id, department_id |-> 1, slot |-> slot, status |-> status] :
        doctor_id \in {0, 1}, slot \in AppointmentSlots, status \in {"confirmed", "pending"}}

BookedTables ==
    {table \in SUBSET BookedRows :
        /\ \A a, b \in table : a.id = b.id => a = b
        /\ \A a \in table : \A id \in 1..(a.id - 1) : \E b \in table : b.id = id
        /\ \A a, b \in table :
               (a # b /\ a.doctor_id # 0 /\ a.doctor_id = b.doctor_id /\ a.slot = b.slot)
               => ~(a.status \in {"confirmed", "pending"} /\ b.status \in {"confirmed", "pending"})}

InitBooked ==
    /\ users = SeedUsers
    /\ departments = {[id |-> 1, name |-> "Cardiology"]}
    /\ deptSeq = 1
    /\ inflight = [slot \in 1..MaxInFlight |-> NoRequest]
    /\ wallet = {}
    /\ now = 0
    /\ uses = {}
    /\ resp = NoResp
    /\ changing = [slot \in 1..MaxInFlight |-> NoChange]
    /\ lastChange = {}
    /\ doctors = {[id |-> 1, user_id |-> 3, department_id |-> 1]}
    /\ doctorSeq = 1
    /\ appointments \in BookedTables
    /\ apptSeq = Cardinality(appointments)

(***************************************************************************)
(* SecurityUtils.validate_password called directly.  The passwords are 4,  *)
(* 7 and 8 characters long and hold every mix of an uppercase letter, a    *)
(* lowercase letter, a digit, a listed special character and a character   *)
(* of none of these kinds.                                                 *)
(***************************************************************************)
PasswordFillers == {<<>>, <<"-", "-", "-">>, <<"-", "-", "-", "-">>}

PasswordTails ==
    {<<c1, c2, c3, c4>> : c1 \in {"A", "b", "-"}, c2 \in {"b", "1", "-"},
                          c3 \in {"1", "!", "-"}, c4 \in {"!", "A", "-"}}

PasswordInputs == {filler \o tail : filler \in PasswordFillers, tail \in PasswordTails}

ValidatePassword ==
    \E password \in PasswordInputs :
        LET result == validate_password(password)
        IN  /\ resp' = [NoResp EXCEPT !.op = "validate_password", !.password = password,
                                      !.detail = result.message, !.data = <<result.ok>>]
            /\ UNCHANGED <<users, departments, deptSeq, inflight, wallet, now, uses, changing, lastChange, clinic>>

(***************************************************************************)
(* SecurityUtils.validate_phone and normalize_phone called directly, the   *)
(* former under several settings of the digit range.  The phones have 9 to *)
(* 16 digits, with and without +, separators, a leading 1 and characters   *)
(* that do not belong in a phone.                                          *)
(***************************************************************************)
PhonePrefixes == {<<>>, <<"+">>, <<"(", "+", "1">>, <<" ", "1", "-">>}

PhoneSuffixes == {<<>>, <<".", "7">>, <<"a">>, <<"+", "7">>}

PhoneDigitCounts == {9, 10, 11, 12, 15, 16}

DigitRun(first, n) == <<first>> \o [i \in 1..(n - 1) |-> "5"]

PhoneInputs ==
    {prefix \o DigitRun(first, n) \o suffix :
        prefix \in PhonePrefixes, first \in {"1", "2"}, n \in PhoneDigitCounts, suffix \in PhoneSuffixes}

PhoneRanges == {<<PHONE_MIN_LENGTH, PHONE_MAX_LENGTH>>, <<PHONE_MIN_LENGTH + 1, PHONE_MAX_LENGTH - 2>>}

ValidatePhone ==
    \E phone \in PhoneInputs, range \in PhoneRanges :
        LET result == validate_phone_under(phone, range[1], range[2])
        IN  /\ resp' = [NoResp EXCEPT !.op = "validate_phone", !.phone = phone,
                                      !.detail = result.message, !.data = <<result.ok, range[1], range[2]>>]
            /\ UNCHANGED <<users, departments, deptSeq, inflight, wallet, now, uses, changing, lastChange, clinic>>

NormalizePhone ==
    \E phone \in PhoneInputs :
        /\ resp' = [NoResp EXCEPT !.op = "normalize_phone", !.phone = phone, !.data = normalize_phone(phone)]
        /\ UNCHANGED <<users, departments, deptSeq, inflight, wallet, now, uses, changing, lastChange, clinic>>

(***************************************************************************)
(* TokenUtils.create_access_token called directly with an explicit         *)
(* expires_delta, for any subject.                                         *)
(***************************************************************************)
TokenSubjects == {"1", "2", "9"}

CreateAccessToken ==
    \E sub \in TokenSubjects, expires_delta \in {NoDelta} \cup 0..MaxDelta :
        LET token == create_access_token([sub |-> sub, phone |-> crud_get(IntOf(sub)).phone], expires_delta, now)
        IN  /\ resp' = [NoResp EXCEPT !.op = "create_access_token", !.access = token, !.data = <<expires_delta>>]
            /\ Keep({token})
            /\ UNCHANGED <<users, departments, deptSeq, inflight, now, uses, changing, lastChange, clinic>>

(* Time passes. *)
Tick ==
    /\ now < MaxTime
    /\ now' = now + 1
    /\ resp' = NoResp
    /\ UNCHANGED <<users, departments, deptSeq, inflight, wallet, uses, changing, lastChange, clinic>>

(* The bearer gate and the refresh endpoint, offered good, expired, forged
   and malformed tokens. *)
NextGate ==
    \/ Login
    \/ RefreshTokenOffered
    \/ GetCurrentUserInfoOffered
    \/ Tick

SpecGate == Init /\ [][NextGate]_vars

(* The appointments router over a table that holds rows already. *)
NextAppointments ==
    \/ Login
    \/ ListAppointments
    \/ GetAppointment
    \/ CreateAppointment
    \/ UpdateAppointment
    \/ CancelAppointment

SpecAppointments == InitBooked /\ [][NextAppointments]_vars

(* The validators of SecurityUtils as pure functions. *)
NextValidators ==
    \/ ValidatePassword
    \/ ValidatePhone
    \/ NormalizePhone

SpecValidators == Init /\ [][NextValidators]_vars

(* The bearer gate, the refresh cycle and the active flag. *)
Next ==
    \/ Login
    \/ RefreshToken
    \/ GetCurrentUserInfo
    \/ AdminSetActive
    \/ Tick

Spec == Init /\ [][Next]_vars

(* A session: tokens against the operations that might be thought to end them. *)
NextSession ==
    \/ Login
    \/ RefreshTokenObserved
    \/ LogoutObserved
    \/ ChangePassword
    \/ Tick

SpecSession == Init /\ [][NextSession]_vars

(* Registration under concurrency. *)
NextReg ==
    \/ RegisterCheck
    \/ RegisterCreate
    \/ Login

SpecReg == Init /\ [][NextReg]_vars

(* Password changes under concurrency, and the logins that follow them. *)
NextPassword ==
    \/ Login
    \/ ChangePasswordLoad
    \/ ChangePasswordCommit

SpecPassword == Init /\ [][NextPassword]_vars

(* Registration and login with secrets at and beyond the bcrypt limit. *)
NextLong ==
    \/ RegisterCheckLong
    \/ RegisterCreate
    \/ LoginLong

SpecLong == Init /\ [][NextLong]_vars

(* Every operation of the auth router against the stored credentials, with
   one register request at a time. *)
RegisterAlone ==
    /\ \A slot \in 1..MaxInFlight : inflight[slot] = NoRequest
    /\ RegisterCheck

(* The phone as identity key: normalization, and its use by registration
   and by the lookup of login. *)
NextPhone ==
    \/ NormalizePhone
    \/ RegisterAlone
    \/ RegisterCreate
    \/ Login

SpecPhone == Init /\ [][NextPhone]_vars

NextCredential ==
    \/ RegisterAlone
    \/ RegisterCreate
    \/ Login
    \/ RefreshToken
    \/ Logout
    \/ ChangePassword

SpecCredential == Init /\ [][NextCredential]_vars

(* The role flags against everything a user can ask for, and against the
   admin's doctor operations. *)
NextRoles ==
    \/ RegisterAlone
    \/ RegisterCreate
    \/ Login
    \/ RefreshToken
    \/ Logout
    \/ ChangePassword
    \/ CreateAppointment
    \/ CancelAppointment
    \/ CreateDoctor
    \/ DeleteDoctor

SpecRoles == Init /\ [][NextRoles]_vars

(* The admin gate in front of the admin-only endpoints. *)
NextAdmin ==
    \/ Login
    \/ GetDashboardStats
    \/ CreateDepartment
    \/ UpdateDepartment
    \/ DeleteDepartment
    \/ AdminSetActive
    \/ Tick

SpecAdmin == Init /\ [][NextAdmin]_vars

(* The doctors router next to the departments router, whose deletes take
   the doctors of the department with them. *)
NextDoctors ==
    \/ Login
    \/ CreateDepartment
    \/ DeleteDepartment
    \/ CreateDoctor
    \/ DeleteDoctor

SpecDoctors == Init /\ [][NextDoctors]_vars

(* The token functions on their own. *)
NextToken ==
    \/ CreateAccessToken
    \/ GetCurrentUserInfo
    \/ Tick

SpecToken == Init /\ [][NextToken]_vars

(***************************************************************************)
(* Properties                                                              *)
(***************************************************************************)
SchemaOk(phone, password) == Len(phone) >= 10 /\ Len(phone) <= 20 /\ Len(password) >= 8

SubjectOf(token) == crud_get(IntOf(token.sub))

(* signed by the server and not past its expiry instant *)
Unexpired(token) == token.sig = "ok" /\ token.exp >= now

BearerOps == {"me", "logout"}

AdminOps == {"get_dashboard_stats", "create_department", "update_department", "delete_department"}

(* C1: under any interleaving of register requests, no two user rows hold
   the same stored phone; at most one registration per canonical phone
   succeeds. *)
C1_PhoneUnique ==
    \A i, j \in 1..Len(users) : i # j => users[i].phone # users[j].phone

C1_Witness ==
    /\ resp.op = "register"
    /\ resp.status = 500
    /\ Len(users) > Len(SeedUsers)
    /\ users[Len(users)].phone = normalize_phone(resp.phone)

(* C2: a valid register request that finds its canonical phone taken, also
   when it lost a race after passing the existence check, is answered with
   ConflictError (409). *)
C2_DuplicateIsConflict ==
    ( /\ resp.op = "register"
      /\ resp.status # 201
      /\ SchemaOk(resp.phone, resp.password)
      /\ validate_phone(resp.phone).ok
      /\ validate_password(resp.password).ok
      /\ get_by_phone(resp.phone) # NoUser )
    => resp.status = 409

(* C3: the bearer gate answers 401 when the subject of a valid access token
   is absent and when it is inactive, and returns the user only when it
   exists and is active. *)
C3_GateAnswers401 ==
    ( /\ resp.op \in BearerOps
      /\ Unexpired(resp.token)
      /\ resp.token.type = "access" )
    => IF SubjectOf(resp.token) = NoUser \/ ~SubjectOf(resp.token).is_active
       THEN resp.status = 401 /\ resp.uid = 0
       ELSE resp.status = 200 /\ resp.uid = SubjectOf(resp.token).id

(* C4: an admin-only operation takes effect (changes the directory, or
   answers with data) only for a request carrying an unexpired access token
   of an existing, active, is_admin user; any other request is turned away
   with 401 or 403, reads nothing and changes nothing. *)
AdminToken(token) ==
    /\ Unexpired(token)
    /\ token.type = "access"
    /\ SubjectOf(token) # NoUser
    /\ SubjectOf(token).is_active
    /\ SubjectOf(token).is_admin

C4_AdminOnlyAfterGates ==
    [][ /\ (departments' # departments \/ deptSeq' # deptSeq)
             => (resp'.op \in AdminOps /\ AdminToken(resp'.token))
        /\ (resp'.op \in AdminOps /\ ~AdminToken(resp'.token))
             => /\ resp'.status \in {401, 403}
                /\ resp'.data = <<>>
                /\ resp'.uid = 0
                /\ departments' = departments ]_vars

C4_Witness ==
    /\ resp.op = "create_department"
    /\ resp.status = 201
    /\ AdminToken(resp.token)
    /\ Cardinality(departments) = 2

(* C5: the admin gate answers 403 to every authenticated user whose
   is_admin flag is false and hands the same user on when it is true. *)
C5_AdminGate ==
    ( /\ resp.op \in AdminOps
      /\ get_current_user(resp.token).status = 200 )
    => IF get_current_user(resp.token).user.is_admin
       THEN resp.status \notin {401, 403} /\ resp.uid = get_current_user(resp.token).user.id
       ELSE resp.status = 403 /\ resp.uid = 0

C5_Witness ==
    /\ resp.op \in AdminOps
    /\ resp.status = 403
    /\ get_current_user(resp.token).status = 200
    /\ ~get_current_user(resp.token).user.is_admin

(* C6: token kinds are not interchangeable: an access token at the refresh
   endpoint gets 401 and no token, a refresh token at the bearer gate gets
   401 and authenticates nobody, and a token honoured for its own kind
   yields the subject id it was issued for. *)
C6_KindsNotInterchangeable ==
    /\ (resp.op = "refresh" /\ resp.token.type = "access")
          => (resp.status = 401 /\ resp.access = NoToken /\ resp.uid = 0)
    /\ (resp.op \in BearerOps \cup {"change_password"} /\ resp.token.type = "refresh")
          => (resp.status = 401 /\ resp.uid = 0)
    /\ (resp.op \in BearerOps /\ resp.status = 200)
          => (resp.token.type = "access" /\ ToString(resp.uid) = resp.token.sub)
    /\ (resp.op = "refresh" /\ resp.status = 200)
          => (resp.token.type = "refresh" /\ ToString(resp.uid) = resp.token.sub)

C6_Witness ==
    /\ resp.op \in BearerOps
    /\ resp.token \in wallet
    /\ Unexpired(resp.token)
    /\ resp.token.type = "refresh"
    /\ SubjectOf(resp.token).is_active
    /\ resp.status = 401

(* C7: an access token issued with expires_delta = 0 fails every later
   verification, and a token past its expiry instant is answered 401. *)
C7_ZeroTtlRejected ==
    /\ (resp.op = "create_access_token" /\ resp.data = <<0>>)
          => \A t \in (now + 1)..(MaxTime + 1) : ~decode_token(resp.access, t).ok
    /\ (resp.op = "me" /\ resp.token.sig = "ok" /\ resp.token.exp < now)
          => resp.status = 401

(* C8: a refresh request with an unexpired refresh token of an existing
   active user returns a newly minted access token for that user id and the
   stored phone, and changes no stored state. *)
C8_RefreshCycle ==
    [][ ( /\ resp'.op = "refresh"
          /\ Unexpired(resp'.token)
          /\ resp'.token.type = "refresh"
          /\ SubjectOf(resp'.token) # NoUser
          /\ SubjectOf(resp'.token).is_active )
        => /\ resp'.status = 200
           /\ resp'.access = [sub |-> ToString(SubjectOf(resp'.token).id),
                              phone |-> SubjectOf(resp'.token).phone,
                              exp |-> now + ACCESS_TOKEN_EXPIRE,
                              type |-> "access", sig |-> "ok"]
           /\ users' = users
           /\ departments' = departments
           /\ inflight' = inflight ]_vars

C8_Witness ==
    /\ resp.op = "refresh"
    /\ resp.status = 200
    /\ resp.token.exp = now
    /\ resp.access.exp > resp.token.exp

(* C9: no operation revokes a token: every issued token whose user exists
   and is active is honoured for its own kind up to its expiry instant,
   whatever refresh, logout, login and change-password requests came
   before, and a refresh token is honoured any number of times. *)
C9_NoRevocation ==
    \A token \in wallet :
        (Unexpired(token) /\ SubjectOf(token) # NoUser /\ SubjectOf(token).is_active)
        => /\ token.type = "access" => get_current_user(token).status = 200
           /\ token.type = "refresh" => refresh_token(token).status = 200

C9_Witness ==
    /\ resp.op = "logout"
    /\ resp.status = 200
    /\ resp.token \in wallet
    /\ resp.token.exp = now
    /\ [token |-> resp.token, n |-> 2] \in uses
    /\ SubjectOf(resp.token).hashed_password # SeedUsers[SubjectOf(resp.token).id].hashed_password

(* C10: for a user whose is_active flag is false, login with the right
   phone and password and refresh with an unexpired refresh token both
   answer 401 and issue no token, and the user row is still there. *)
C10_InactiveGetsNoCredentials ==
    /\ ( /\ resp.op = "login"
          /\ authenticate(resp.phone, resp.password) # NoUser
          /\ ~authenticate(resp.phone, resp.password).is_active )
        => (resp.status = 401 /\ resp.access = NoToken /\ resp.refresh = NoToken)
    /\ ( /\ resp.op = "refresh"
          /\ Unexpired(resp.token)
          /\ resp.token.type = "refresh"
          /\ SubjectOf(resp.token) # NoUser
          /\ ~SubjectOf(resp.token).is_active )
        => (resp.status = 401 /\ resp.access = NoToken)
    /\ \A id \in 1..Len(SeedUsers) : crud_get(id) # NoUser

C10_Witness ==
    /\ resp.op = "refresh"
    /\ resp.status = 401
    /\ resp.token \in wallet
    /\ Unexpired(resp.token)
    /\ resp.token.type = "refresh"
    /\ crud_get(IntOf(resp.token.sub)).id # 0
    /\ ~SubjectOf(resp.token).is_active

(* the canonical form of this phone is the stored phone of some user row *)
Stored(phone) == \E i \in 1..Len(users) : users[i].phone = normalize_phone(phone)

(* C11: a register request whose phone normalizes to the stored phone of a
   user that is already there when the existence check runs never gets past
   that check: a well-formed one is answered 409 "User with this phone number
   already exists", no row is added, no row is changed and no token is
   issued, whatever the raw spelling of the phone. *)
C11_DuplicateRegisterRejected ==
    [][ /\ \A slot \in 1..MaxInFlight :
              (inflight[slot] = NoRequest /\ inflight'[slot] # NoRequest)
              => ~Stored(inflight'[slot].phone)
        /\ ( /\ resp'.op = "register"
             /\ inflight' = inflight
             /\ SchemaOk(resp'.phone, resp'.password)
             /\ validate_phone(resp'.phone).ok
             /\ validate_password(resp'.password).ok
             /\ Stored(resp'.phone) )
           => /\ resp'.status = 409
              /\ resp'.detail = "User with this phone number already exists"
              /\ users' = users
              /\ wallet' = wallet
              /\ resp'.access = NoToken
              /\ resp'.refresh = NoToken ]_vars

C11_Witness ==
    /\ resp.op = "register"
    /\ resp.status = 409
    /\ resp.phone = PhoneNewParens
    /\ Len(users) = Len(SeedUsers) + 1
    /\ users[Len(users)].phone = normalize_phone(PhoneNewPlain)
    /\ \A slot \in 1..MaxInFlight : inflight[slot] = NoRequest

StoredRow(phone) == users[CHOOSE i \in 1..Len(users) : users[i].phone = normalize_phone(phone)]

(* C12: a login with the phone of a stored user and a password that does not
   match the stored credential is answered 401 "Invalid phone number or
   password", issues no token and changes nothing; since nothing is recorded,
   every repetition gets the same answer, and a login with the matching
   password of an active user succeeds in whatever state earlier failures
   left (no lockout). *)
C12_WrongPasswordHasNoEffect ==
    [][ (resp'.op = "login" /\ Stored(resp'.phone))
        => IF ~verify_password(resp'.password, StoredRow(resp'.phone).hashed_password)
           THEN /\ resp'.status = 401
                /\ resp'.detail = "Invalid phone number or password"
                /\ resp'.access = NoToken
                /\ resp'.refresh = NoToken
                /\ users' = users
                /\ wallet' = wallet
                /\ departments' = departments
                /\ inflight' = inflight
                /\ uses' = uses
           ELSE StoredRow(resp'.phone).is_active
                => /\ resp'.status = 200
                   /\ resp'.uid = StoredRow(resp'.phone).id
                   /\ resp'.access.type = "access"
                   /\ resp'.refresh.type = "refresh" ]_vars

C12_Witness ==
    /\ resp.op = "login"
    /\ resp.status = 401
    /\ Stored(resp.phone)
    /\ StoredRow(resp.phone).is_active
    /\ ~verify_password(resp.password, StoredRow(resp.phone).hashed_password)
    /\ \E token \in wallet : token.sub = ToString(StoredRow(resp.phone).id)

(* C13: from a successful change-password of a user until that user's next
   successful change-password, every login with the user's phone and the new
   password succeeds, and every login with the old password, when it differs
   from the new one, is answered 401 "Invalid phone number or password". *)
C13_NewPasswordReplacesOld ==
    \A c \in lastChange :
        LET user == crud_get(c.uid)
        IN  /\ authenticate(user.phone, c.new) = user
            /\ c.old # c.new => authenticate(user.phone, c.old) = NoUser
            /\ (resp.op = "login" /\ Stored(resp.phone) /\ StoredRow(resp.phone).id = c.uid)
               => /\ (resp.password = c.new /\ user.is_active)
                        => (resp.status = 200 /\ resp.uid = c.uid /\ resp.access # NoToken)
                  /\ (resp.password = c.old /\ c.old # c.new)
                        => /\ resp.status = 401
                           /\ resp.detail = "Invalid phone number or password"
                           /\ resp.access = NoToken

C13_Witness ==
    /\ [uid |-> 1, old |-> PwNew, new |-> PwAdmin] \in lastChange
    /\ resp.op = "login"
    /\ normalize_phone(resp.phone) = SeedAdminPhone
    /\ resp.password = PwNew
    /\ resp.status = 401

SameCredentials == \A i \in 1..Len(users) : users'[i].hashed_password = users[i].hashed_password

(* C14: the stored credential of an existing user changes only in a
   successful change-password of that very user, which stores the hash of
   the new password; register, login, refresh, logout and every failing
   change-password (gate, mismatch, policy, wrong old password) leave the
   hashed_password of every existing user as it was. *)
C14_CredentialFrame ==
    [][ /\ Len(users') >= Len(users)
        /\ \A i \in 1..Len(users) :
              users'[i].hashed_password # users[i].hashed_password
              => /\ resp'.op = "change_password"
                 /\ resp'.status = 200
                 /\ resp'.uid = users[i].id
                 /\ users'[i].hashed_password = get_password_hash(resp'.password)
        /\ resp'.op \in {"register", "login", "refresh", "logout"} => SameCredentials
        /\ (resp'.op = "change_password" /\ resp'.status # 200) => SameCredentials ]_vars

C14_Witness ==
    /\ resp.op = "change_password"
    /\ resp.status = 401
    /\ resp.detail = "Invalid current password"
    /\ Len(users) > Len(SeedUsers)
    /\ resp.uid \in 1..Len(SeedUsers)
    /\ crud_get(resp.uid).hashed_password = get_password_hash(PwNew)
    /\ SeedUsers[resp.uid].hashed_password # get_password_hash(PwNew)

(* C15: a change-password request reports success only if the old password
   it supplied matches the credential that is stored at the moment its new
   hash is written; so of two concurrent requests of one user that both
   supply the original password, not both report success. *)
C15_ChangeIsAtomic ==
    [][ ( /\ resp'.op = "change_password"
          /\ resp'.status = 200
          /\ \E slot \in 1..MaxInFlight : changing[slot] # NoChange /\ changing'[slot] = NoChange )
        => verify_password(resp'.data[1], crud_get(resp'.uid).hashed_password) ]_vars

SubjectOps == {"register", "login", "refresh", "change_password", "logout",
               "create_appointment", "cancel_appointment"}

SameRoles == \A i \in 1..Len(users) : /\ users'[i].is_admin = users[i].is_admin
                                      /\ users'[i].is_doctor = users[i].is_doctor

(* C16: no request a user makes for itself (register, login, refresh,
   change-password, logout, creating or cancelling an appointment) changes
   a role flag; a new user row has is_admin and is_doctor false; is_doctor
   of a row changes only in a create_doctor or delete_doctor that passed the
   admin gate and names that user; is_admin of a row never changes. *)
C16_RoleFlags ==
    [][ /\ Len(users') >= Len(users)
        /\ \A i \in 1..Len(users) :
              /\ users'[i].is_admin = users[i].is_admin
              /\ users'[i].is_doctor # users[i].is_doctor
                 => /\ resp'.op \in {"create_doctor", "delete_doctor"}
                    /\ AdminToken(resp'.token)
                    /\ resp'.status \in {201, 204}
                    /\ resp'.data[2] = users[i].id
                    /\ users'[i].is_doctor = (resp'.op = "create_doctor")
        /\ \A i \in (Len(users) + 1)..Len(users') :
              /\ resp'.op = "register"
              /\ ~users'[i].is_admin
              /\ ~users'[i].is_doctor
        /\ resp'.op \in SubjectOps => SameRoles ]_vars

C16_Witness ==
    /\ resp.op = "create_doctor"
    /\ resp.status = 201
    /\ resp.data[2] = 2
    /\ crud_get(2).is_doctor
    /\ ~crud_get(3).is_doctor
    /\ Len(users) > Len(SeedUsers)
    /\ ~users[Len(users)].is_admin
    /\ ~users[Len(users)].is_doctor
    /\ lastChange # {}

(* C17: register checks the phone format first, then the password policy,
   then the duplicate: a request with an invalid phone is answered with the
   phone's message whatever its password, one with a valid phone and an
   invalid password with the password's message even if the phone is taken,
   and only requests valid in both reach the duplicate check; a request
   failing either validation is answered 422, adds no user row and gets no
   token. *)
C17_RegisterValidationOrder ==
    [][ /\ resp'.op = "register"
           => /\ (~validate_phone(resp'.phone).ok \/ ~validate_password(resp'.password).ok)
                 => /\ resp'.status = 422
                    /\ resp'.access = NoToken
                    /\ resp'.refresh = NoToken
                    /\ users' = users
                    /\ wallet' = wallet
                    /\ inflight' = inflight
              /\ (SchemaOk(resp'.phone, resp'.password) /\ ~validate_phone(resp'.phone).ok)
                 => resp'.detail = validate_phone(resp'.phone).message
              /\ ( /\ SchemaOk(resp'.phone, resp'.password)
                   /\ validate_phone(resp'.phone).ok
                   /\ ~validate_password(resp'.password).ok )
                 => resp'.detail = validate_password(resp'.password).message
        /\ \A slot \in 1..MaxInFlight :
              (inflight'[slot] # inflight[slot] /\ inflight'[slot] # NoRequest)
              => /\ validate_phone(inflight'[slot].phone).ok
                 /\ validate_password(inflight'[slot].password).ok ]_vars

C17_Witness ==
    /\ resp.op = "register"
    /\ resp.phone = PhoneLetters
    /\ resp.password = PwWeak
    /\ resp.status = 422
    /\ resp.detail = validate_phone(PhoneLetters).message
    /\ resp.detail # validate_password(PwWeak).message
    /\ Len(users) > Len(SeedUsers)

(* C18: a login whose phone fails phone validation is turned away by the
   validator (422) before any password is compared and any token issued. *)
C18_LoginValidatesPhone ==
    (resp.op = "login" /\ ~validate_phone(resp.phone).ok)
    => /\ resp.status = 422
       /\ resp.access = NoToken
       /\ resp.refresh = NoToken

(* C19: a register request answered 201 has added one user row whose phone
   is normalize_phone of the phone sent and whose credential is the hash of
   the password sent; the access token returned is of kind access, the
   refresh token of kind refresh, and both carry the new row's id, as a
   string, as subject and the stored canonical phone. *)
C19_RegisterResult ==
    (resp.op = "register" /\ resp.status = 201)
    => LET user == users[Len(users)]
       IN  /\ Len(users) > Len(SeedUsers)
           /\ user.id = Len(users)
           /\ resp.uid = user.id
           /\ user.phone = normalize_phone(resp.phone)
           /\ user.hashed_password = get_password_hash(resp.password)
           /\ verify_password(resp.password, user.hashed_password)
           /\ resp.access = [sub |-> ToString(user.id), phone |-> user.phone,
                             exp |-> now + ACCESS_TOKEN_EXPIRE, type |-> "access", sig |-> "ok"]
           /\ resp.refresh = [sub |-> ToString(user.id), phone |-> user.phone,
                              exp |-> now + REFRESH_TOKEN_EXPIRE, type |-> "refresh", sig |-> "ok"]

C19_Witness ==
    /\ resp.op = "register"
    /\ resp.status = 201
    /\ resp.phone = PhoneNewParens
    /\ users[Len(users)].phone = <<"+","1","2","0","2","5","5","5","0","1","0","0">>
    /\ resp.access.sub = "4"
    /\ resp.refresh \in wallet

(* what the login endpoint does with a phone and a secret as the client sends them *)
LoginAccepts(phone, password) == authenticate(phone, truncate_password(password)) # NoUser

(* C20: the 72-byte truncation is the same where the secret is hashed and
   where it is verified: whoever has just registered with a secret, also one
   longer than 72 UTF-8 bytes whose 72nd byte lies inside a multi-byte
   character, is accepted by login with that same secret. *)
C20_LongSecretRoundTrip ==
    (resp.op = "register" /\ resp.status = 201)
    => LoginAccepts(resp.phone, resp.password)

(* a token that decode_token turns down: forged, malformed or expired *)
Rejected(token) == token # NoToken /\ ~decode_token(token, now).ok

(* the response of the endpoint of the last request, had it been sent token *)
ResponseTo(token) ==
    IF resp.op = "refresh" THEN refresh_token(token)
    ELSE LET current == get_current_user(token)
         IN  [NoResp EXCEPT !.op = "me", !.token = token, !.status = current.status,
                            !.detail = current.detail, !.uid = current.user.id]

(* C21: a request at the bearer gate or at the refresh endpoint whose token
   is forged, malformed or expired is answered 401, and its response is the
   one every other such token gets at that endpoint: nothing in it tells an
   expired token from a forged or a malformed one. *)
C21_RejectionsLookAlike ==
    (resp.op \in {"me", "refresh"} /\ Rejected(resp.token))
    => /\ resp.status = 401
       /\ resp.access = NoToken
       /\ \A other \in Offered :
              Rejected(other) => [ResponseTo(other) EXCEPT !.token = resp.token] = resp

(* an expired access token of the server's own making was turned down at
   the gate, while a forged token that is not expired could be sent as well *)
C21_Witness ==
    /\ resp.op = "me"
    /\ resp.status = 401
    /\ resp.token.sig = "ok"
    /\ resp.token.type = "access"
    /\ resp.token.exp < now
    /\ \E other \in Offered : other.sig = "bad" /\ ~(other.exp < now)

(* the rules of the password policy, in the order they are named *)
PasswordRules(password) ==
    << Len(password) >= 8,
       \E i \in 1..Len(password) : password[i] \in Upper,
       \E i \in 1..Len(password) : password[i] \in Lower,
       \E i \in 1..Len(password) : password[i] \in Digits,
       \E i \in 1..Len(password) : password[i] \in Special >>

PasswordRuleMessages ==
    << "Password must be at least 8 characters long",
       "Password must contain at least one uppercase letter",
       "Password must contain at least one lowercase letter",
       "Password must contain at least one digit",
       "Password must contain at least one special character" >>

(* C22: validate_password accepts exactly the passwords that meet all five
   rules (8 characters, uppercase, lowercase, digit, special character), and
   the message of a rejection is that of the first unmet rule in that order
   and of no other. *)
C22_ValidatePassword ==
    resp.op = "validate_password"
    => LET rules == PasswordRules(resp.password)
           unmet == {i \in 1..5 : ~rules[i]}
       IN  /\ resp.data = <<unmet = {}>>
           /\ unmet # {} =>
                  resp.detail = PasswordRuleMessages[CHOOSE i \in unmet : \A j \in unmet : i <= j]
           /\ unmet = {} => resp.detail \notin {PasswordRuleMessages[i] : i \in 1..5}

(* a password of 8 characters that lacks both an uppercase letter and a
   digit was turned down for the uppercase letter *)
C22_Witness ==
    /\ resp.op = "validate_password"
    /\ Len(resp.password) = 8
    /\ ~PasswordRules(resp.password)[2]
    /\ ~PasswordRules(resp.password)[4]
    /\ PasswordRules(resp.password)[3]
    /\ resp.data = <<FALSE>>
    /\ resp.detail = "Password must contain at least one uppercase letter"

(* what is left of a phone once spaces, hyphens, parentheses and dots are gone *)
WithoutSeparators(phone) == SelectSeq(phone, LAMBDA c : c \notin {" ", "-", "(", ")", "."})

DigitCount(phone) == Cardinality({i \in 1..Len(phone) : phone[i] \in Digits})

(* an optional leading + followed by 10 to 15 digits *)
PhoneShape(s) ==
    LET plus == IF Len(s) > 0 /\ s[1] = "+" THEN 1 ELSE 0
    IN  /\ \A i \in (plus + 1)..Len(s) : s[i] \in Digits
        /\ Len(s) - plus >= 10
        /\ Len(s) - plus <= 15

(* C23: validate_phone accepts a phone exactly when, separators removed, it
   is an optional leading + followed by 10 to 15 digits and the number of its
   digits lies in the configured range; the message of every rejection cites
   that configured range. *)
C23_ValidatePhone ==
    resp.op = "validate_phone"
    => LET ok == resp.data[1]
           min_length == resp.data[2]
           max_length == resp.data[3]
           stripped == WithoutSeparators(resp.phone)
       IN  /\ ok <=> /\ PhoneShape(stripped)
                     /\ DigitCount(stripped) >= min_length
                     /\ DigitCount(stripped) <= max_length
           /\ ~ok => resp.detail \in
                  {"Invalid phone number format. Must be " \o ToString(min_length) \o "-" \o ToString(max_length) \o " digits",
                   "Phone number must be " \o ToString(min_length) \o "-" \o ToString(max_length) \o " digits"}

(* a phone of the right shape was turned down because the number of its
   digits lies outside a range narrower than 10 to 15 *)
C23_Witness ==
    /\ resp.op = "validate_phone"
    /\ PhoneShape(WithoutSeparators(resp.phone))
    /\ Len(WithoutSeparators(resp.phone)) < Len(resp.phone)
    /\ DigitCount(resp.phone) < resp.data[2]
    /\ resp.data[1] = FALSE
    /\ resp.detail = "Phone number must be 11-13 digits"

(* the canonical form of a phone, as the contract words it *)
Canonical(phone) ==
    LET kept == SelectSeq(phone, LAMBDA c : c \in Digits \/ c = "+")
    IN  CASE Len(kept) > 0 /\ kept[1] = "+" -> kept
          [] Len(kept) = 11 /\ kept[1] = "1" -> PHONE_COUNTRY_CODE \o SubSeq(kept, 2, 11)
          [] OTHER -> PHONE_COUNTRY_CODE \o kept

(* C24: normalize_phone keeps the digits and + signs only; a result with a
   leading + is returned as it is, otherwise the leading 1 of an 11-character
   result is dropped and the country code is put in front.  The phone stored
   by a registration and the phone a login is matched against are this
   normalized value. *)
C24_NormalizePhone ==
    /\ resp.op = "normalize_phone" => resp.data = Canonical(resp.phone)
    /\ (resp.op = "register" /\ resp.status = 201) => users[resp.uid].phone = Canonical(resp.phone)
    /\ (resp.op = "login" /\ resp.status = 200) => users[resp.uid].phone = Canonical(resp.phone)
    /\ (resp.op = "login" /\ resp.status = 401 /\ resp.detail = "Invalid phone number or password")
       => \A i \in 1..Len(users) :
              users[i].phone = Canonical(resp.phone) => ~verify_password(resp.password, users[i].hashed_password)

(* a user registered with an 11-digit phone that begins with 1 and was
   stored under the country code and the other ten digits *)
C24_Witness ==
    /\ resp.op = "register"
    /\ resp.status = 201
    /\ resp.phone = PhoneNewLeadingOne
    /\ users[resp.uid].phone = PHONE_COUNTRY_CODE \o Tail(PhoneNewLeadingOne)

(* C25: normalizing twice is normalizing once: for every phone that passes
   validate_phone, normalize_phone of its normalized form is that same
   normalized form. *)
C25_NormalizeIdempotent ==
    (resp.op = "normalize_phone" /\ validate_phone(resp.phone).ok)
    => normalize_phone(resp.data) = resp.data

(* a valid phone written with separators and a leading 1, without +, was
   normalized: the 1 was dropped and the country code put in front *)
C25_Witness ==
    /\ resp.op = "normalize_phone"
    /\ validate_phone(resp.phone).ok
    /\ resp.phone[1] = " "
    /\ resp.data # resp.phone
    /\ Len(resp.data) = Len(PHONE_COUNTRY_CODE) + 10
    /\ SubSeq(resp.data, 1, Len(PHONE_COUNTRY_CODE)) = PHONE_COUNTRY_CODE

AppointmentOps == {"list_appointments", "get_appointment", "create_appointment", "cancel_appointment"}

RowWithId(id) == {a \in appointments : a.id = id}

(* C26: a request of a user who is not an admin leaves the appointments of
   other patients as they are; the list it gets holds the caller's own
   appointments only; get and cancel aimed at another patient's appointment
   are answered 404 "Appointment not found".  An admin's list holds every
   appointment that passes the filter, and an admin's cancel of an existing
   appointment is carried out. *)
C26_AppointmentIsolation ==
    [][ (resp'.op \in AppointmentOps /\ resp'.uid # 0) =>
          LET caller == resp'.uid
              is_admin == users[caller].is_admin
              aimed == RowWithId(resp'.data[1])
          IN  /\ ~is_admin => \A a \in appointments : a.patient_id # caller => a \in appointments'
              /\ (resp'.op = "list_appointments" /\ ~is_admin) =>
                     /\ \A a \in resp'.data[1] : a.patient_id = caller
                     /\ \A a \in appointments :
                            (a.patient_id = caller /\ resp'.data[2] \in {"", a.status}) => a \in resp'.data[1]
              /\ (resp'.op = "list_appointments" /\ is_admin) =>
                     resp'.data[1] = {a \in appointments : resp'.data[2] \in {"", a.status}}
              /\ (resp'.op \in {"get_appointment", "cancel_appointment"} /\ ~is_admin
                      /\ \E a \in aimed : a.patient_id # caller) =>
                     /\ resp'.status = 404
                     /\ resp'.detail = "Appointment not found"
                     /\ appointments' = appointments
              /\ (resp'.op = "cancel_appointment" /\ aimed # {} /\ (is_admin \/ \A a \in aimed : a.patient_id = caller)) =>
                     /\ resp'.status = 204
                     /\ appointments' = (appointments \ aimed) \cup {[a EXCEPT !.status = "cancelled"] : a \in aimed}
      ]_vars

(* the patient asked to cancel the confirmed appointment of another patient,
   was told it does not exist, and it is still confirmed *)
C26_Witness ==
    /\ resp.op = "cancel_appointment"
    /\ resp.status = 404
    /\ resp.uid = 2
    /\ \E a \in appointments : a.id = resp.data[1] /\ a.patient_id = 3 /\ a.status = "confirmed"
    /\ \E a \in appointments : a.patient_id = 2

ActiveStatuses == {"confirmed", "pending"}

(* C27: whatever create_appointment, update_appointment and
   cancel_appointment requests are made, no doctor has two appointments with
   status confirmed or pending at the same date and time. *)
C27_NoDoubleBooking ==
    \A a, b \in appointments :
        (a # b /\ a.doctor_id # 0 /\ a.doctor_id = b.doctor_id /\ a.slot = b.slot)
        => ~(a.status \in ActiveStatuses /\ b.status \in ActiveStatuses)

(* C28: a create_appointment request of an authenticated user that names an
   existing department and, if it names a doctor, an existing one that is
   free at that time, is answered 201 and stores a row whose patient_id is
   the caller's id. *)
C28_CreateStoresCaller ==
    (resp.op = "create_appointment" /\ resp.uid # 0 /\ resp.status \notin {404, 409})
    => /\ resp.status = 201
       /\ \E a \in appointments : a.id = resp.data[1] /\ a.patient_id = resp.uid /\ a.status = "confirmed"

(* C29: the status of every appointment is one of confirmed, cancelled,
   completed, no-show and pending. *)
C29_StatusInSet ==
    \A a \in appointments : a.status \in {"confirmed", "cancelled", "completed", "no-show", "pending"}

(***************************************************************************)
(* C30: after every completed create_doctor or delete_doctor request, a    *)
(* user's is_doctor flag is true exactly when a doctor profile with that   *)
(* user_id exists, and no user has two doctor profiles.  A completed       *)
(* request is one that was answered 201 (create) or 204 (delete).          *)
(***************************************************************************)
DoctorRequestCompleted ==
    \/ resp.op = "create_doctor" /\ resp.status = 201
    \/ resp.op = "delete_doctor" /\ resp.status = 204

ProfilesOf(user_id) == {d \in doctors : d.user_id = user_id}

C30_FlagMatchesProfile ==
    DoctorRequestCompleted =>
        \A i \in 1..Len(users) :
            /\ users[i].is_doctor <=> ProfilesOf(users[i].id) # {}
            /\ Cardinality(ProfilesOf(users[i].id)) <= 1

====
